---------------------------- MODULE Spec2Model ----------------------------
(***************************************************************************)
(* Model of the Spotify Web API client core of foo_spotify:                *)
(* WebApi_Backend (src/foo_spotify/backend/webapi_backend.cpp).            *)
(*                                                                         *)
(* Every host thread that calls into the backend is a process.  A process  *)
(* runs one public operation (GetTrack, GetArtist, GetUser,                *)
(* RefreshCacheForTracks, RefreshCacheForArtists); each network read goes  *)
(* through GetJsonResponse = ParseResponse(GetResponse(uri, abort)).       *)
(*                                                                         *)
(* Time is discrete, one tick per second.  Local computation takes no      *)
(* time: the clock advances only while every process is blocked (waiting   *)
(* for the limiter, for the transport, for the authorizer, or asleep).     *)
(***************************************************************************)
EXTENDS Integers, Sequences, FiniteSets, TLC

(***************************************************************************)
(* Bounds of the model.                                                    *)
(***************************************************************************)
NThreads == 2        \* host threads calling into the backend
MaxId == 2           \* ids used by the single-object operations: 1..MaxId
MaxChunks == 2       \* batch inputs hold up to MaxChunks * 50 + 1 distinct ids
MaxDup == 1          \* batch inputs repeat up to MaxDup of their ids
MaxCached == 1       \* ids 1..c, c <= MaxCached, are cached before a batch
MaxPages == 2        \* a playlist is served in up to MaxPages pages
MaxPageItems == 2    \* a page holds up to MaxPageItems items
MaxAccounts == 2     \* Spotify accounts the user can log in with
MaxIdLen == 2        \* a Spotify id holds up to MaxIdLen characters

(***************************************************************************)
(* Program constants.                                                      *)
(***************************************************************************)
kRpsLimit == 2               \* webapi_backend.cpp:33
kMaxAttempts == 3            \* webapi_backend.cpp:455, for ( i = 0; i < 3; ++i )
kMaxItemsPerRequest == 50    \* webapi_backend.cpp:91 and :342
kTooManyRequests == 429      \* webapi_backend.cpp:458
kOk == 200                   \* webapi_backend.cpp:490
OneSecondMs == 1000          \* webapi_backend.cpp:470, std::chrono::seconds( 1 )
kMaxItemsPerPlaylistRequest == 100   \* webapi_backend.cpp:171

Threads == 1..NThreads
Ids == 1..MaxId
Accounts == 1..MaxAccounts
End == 0                     \* the past-the-end iterator of an id range

VARIABLES
    \* ---- per process: the program's own state
    pc,          \* position of the process in the code
    op,          \* the public operation it runs and its arguments
    call,        \* the request uri of the GetJsonResponse call in progress
    abort,       \* abort_callback::is_aborting() of the operation
    attempt,     \* GetResponse: the loop counter i
    response,    \* GetResponse: the local `response`
    sleepLeft,   \* SleepFor: whole seconds left to sleep
    uniqueIds,   \* RefreshCacheFor*: the local unordered_set
    it,          \* RefreshCacheFor*: the chunk view's current iterator
    chunk,       \* RefreshCacheFor*: the ids of the chunk being fetched
    result,      \* what the operation returned to its caller
    \* ---- shared by all processes
    trackCache,  \* ids held by trackCache_
    artistCache, \* ids held by artistCache_
    userCache,   \* TRUE when userCache_ holds the current user
    permits,     \* rpsLimiter_: permits granted in the current second
    \* ---- history (observation only, never read by the program)
    reqCount,       \* transport requests issued by the current GetResponse call
    respLog,        \* responses received by the current GetResponse call
    sleepLog,       \* sleeps of the current GetResponse call
    chunkLog,       \* id sets requested by the batch operation, in order
    cacheWrites,    \* <<cache, id>> pairs the operation inserted
    cache0,         \* the cache the batch operation populates, as it was at call time
    abortAtAcquire, \* abort was signalled when the limiter wait returned
    abortedAt,      \* where the process was when the abort was signalled
    writesAtAbort,  \* cacheWrites as it was when abort was signalled
    reqThisSecond,  \* transport requests issued by all processes in the current second
    \* ---- GetTracks and GetTracksFromPlaylist (per process)
    tracks,         \* the vector of tracks the operation builds
    localTracks,    \* GetTracksFromPlaylist: the vector of local tracks
    requestUri,     \* GetTracksFromPlaylist: the local `requestUri`
    page,           \* the paging object the last response decodes to
    lookupMissed,   \* history: GetTracks looked up an id that was not cached
    uriLog,         \* history: the uris of the GetJsonResponse calls of the operation
    pageLog,        \* history: the pages the operation received
    \* ---- the authorizer and the session
    refreshToken,   \* the account the authorizer holds a refresh token of, 0 if none
    bearer,         \* per process: the account of the bearer in the request's header
    userCachedFor,  \* history: the account whose `me` answer filled userCache_
    userReturned,   \* history: per process, whose user GetUser returned, under which token
    \* ---- cancellation and shutdown
    cts,            \* cts_ is cancelled
    pAuth,          \* pAuth_ holds the authorizer
    localCts,       \* per process: the linked source of lines 450-452
    pcAtCancel,     \* history: where each process was when cts_ was cancelled
    authUsedAfterReset, \* history: per process, it dereferenced pAuth_ after the reset
    \* ---- SpotifyObject
    obj,            \* a SpotifyObject
    formatted,      \* a string made from it
    parsed,         \* what SpotifyObject( formatted ) gives
    inputStr,       \* the string the host handed to SpotifyObject( input )
    isValid,        \* what SpotifyObject::IsValid( inputStr ) returned
    \* ---- the preferences page (ui_preferences.cpp)
    webApiStatus,   \* webApiStatus_
    dialog,         \* the page's window: "open" or "destroyed"
    login,          \* the login AuthenticateClean started: "none", "pending", "posted"
    statusThread    \* pStatusThread_: "running", or the lParam it posted, or "handled"

procVars == <<pc, op, call, abort, attempt, response, sleepLeft, uniqueIds, it, chunk, result>>
sharedVars == <<trackCache, artistCache, userCache, permits>>
histVars == <<reqCount, respLog, sleepLog, chunkLog, cacheWrites, cache0,
              abortAtAcquire, abortedAt, writesAtAbort, reqThisSecond>>
tracksVars == <<tracks, localTracks, requestUri, page, lookupMissed, uriLog, pageLog>>
authVars == <<refreshToken, bearer, userCachedFor, userReturned>>
shutdownVars == <<cts, pAuth, localCts, pcAtCancel, authUsedAfterReset>>
objectVars == <<obj, formatted, parsed, inputStr, isValid>>
uiVars == <<webApiStatus, dialog, login, statusThread>>
vars == <<procVars, sharedVars, histVars, tracksVars, authVars, shutdownVars, objectVars, uiVars>>


(***************************************************************************)
(* Values.                                                                 *)
(***************************************************************************)
OpKinds == {"GetTrack", "GetArtist", "GetUser", "RefreshCacheForTracks", "RefreshCacheForArtists"}
NoOp == [kind |-> "none", id |-> 0, relink |-> FALSE, ids |-> <<>>]

\* Request uris, by their path: `me`, `tracks/{id}`, `artists/{id}`,
\* `tracks?ids=...`, `artists?ids=...`.
Uris == {"me", "track", "artist", "tracks", "artists"}

Statuses == {kOk, kTooManyRequests, 404, 503}
\* The Retry-After header of a response: absent, or its text.
RetryAfterHeaders == {"absent", "soon", "0", "1000"}
\* The body of a 200 response: a JSON object holding what was asked for, a JSON
\* object whose list lacks the object of the largest id asked for, a JSON object
\* without the `tracks` / `artists` member, a JSON array, or no JSON at all.
Bodies == {"object", "partial", "nokey", "array", "garbage"}
NoResponse == [status |-> 0, retryAfter |-> "absent", body |-> "none"]
NoResult == [kind |-> "none", from |-> "none"]
NoUri == [path |-> "none", limit |-> 0, offset |-> 0]
NoPage == [items |-> <<>>, next |-> NoUri]
NoUserReturned == [user |-> 0, token |-> 0]
NoCts == [exists |-> FALSE, linked |-> FALSE, cancelled |-> FALSE]
NoObject == [type |-> <<>>, id |-> <<>>, valid |-> FALSE, by |-> "none"]
NoInput == [given |-> FALSE, text |-> <<>>]

IsBatchUri(uri) == uri \in {"tracks", "artists"}

\* What the server can answer to a request.
ServerResponses(uri) ==
    { [status |-> kOk, retryAfter |-> "absent", body |-> b] :
        b \in IF IsBatchUri(uri) THEN Bodies
              ELSE IF uri \in {"playlist", "album", "albumtracks"} THEN {"object", "nokey", "array", "garbage"}
              ELSE {"object", "array", "garbage"} }
    \cup { [status |-> kTooManyRequests, retryAfter |-> h, body |-> "none"] : h \in RetryAfterHeaders }
    \cup { [status |-> 404, retryAfter |-> "absent", body |-> "none"],
           [status |-> 503, retryAfter |-> "0", body |-> "none"] }

Max(S) == CHOOSE x \in S : \A y \in S : y <= x

(***************************************************************************)
(* qwr::string::GetNumber<uint32_t>: the number a text denotes, if any.    *)
(***************************************************************************)
GetNumber(text) ==
    CASE text = "0" -> [has |-> TRUE, value |-> 0]
      [] text = "1000" -> [has |-> TRUE, value |-> 1000]
      [] OTHER -> [has |-> FALSE, value |-> 0]

(***************************************************************************)
(* GetResponse, the decisions of its retry loop.                           *)
(***************************************************************************)
\* (variant: every response other than 200 is retried)
IsRetriedStatusAnyError(status) == status # kOk

\* line 458: only a 429 response is retried
IsRetriedStatus(status) == status = kTooManyRequests

\* (variant: the loop runs once more)
LoopContinuesOnceMore(i) == i <= kMaxAttempts

\* line 455: the loop condition, evaluated after ++i
LoopContinues(i) == i < kMaxAttempts

\* line 464: ExpectTrue( it != response.headers().end() )
HasRetryAfter(r) == r.retryAfter # "absent"

\* (variant: the header's value is not validated)
RetryAfterValidIfPresent(r) == HasRetryAfter(r)

\* lines 467-468: ExpectTrue( retryInMsOpt.has_value() )
RetryAfterValid(r) == HasRetryAfter(r) /\ GetNumber(r.retryAfter).has

\* (variant: the second is not added)
RetryInWithoutMargin(r) == GetNumber(r.retryAfter).value

\* line 470: retryIn, in milliseconds
RetryIn(r) == GetNumber(r.retryAfter).value + OneSecondMs

\* (variant: the check is missing)
AbortCheckSkipped(t) == FALSE

\* line 448: ExpectTrue( !abort.is_aborting() )
AbortCheckFails(t) == abort[t]

(***************************************************************************)
(* ParseResponse (lines 488-519): TRUE when it returns a JSON value, FALSE *)
(* when it throws.                                                         *)
(***************************************************************************)
\* (variant: the status is not looked at)
ParseResponseOkAnyStatus(r) ==
    /\ r.body # "garbage"
    /\ r.body # "array"

\* (variant: the top-level value may be any JSON value)
ParseResponseOkAnyJson(r) ==
    /\ r.status = kOk
    /\ r.body # "garbage"

ParseResponseOk(r) ==
    /\ r.status = kOk                                  \* line 490
    /\ r.body # "garbage"                              \* line 509, json::parse throws
    /\ r.body # "array"                                \* line 515, is_object()

(***************************************************************************)
(* The object caches, as sets of ids.                                      *)
(***************************************************************************)
IsCached(cache, id) == id \in cache
CacheObjects(cache, ids) == cache \cup ids

(***************************************************************************)
(* RefreshCacheForTracks / RefreshCacheForArtists (lines 94-99, 337-342):  *)
(*   uniqueIds | views::remove_if( IsCached ) | views::chunk( 50 ).        *)
(* The views are lazy.  The filter's iterator is a position in uniqueIds;  *)
(* incrementing it moves to the next id for which IsCached is false at the *)
(* moment of the increment.  The chunk view over a forward range reads a   *)
(* chunk as take( [it, end), 50 ) and is incremented, after the loop body, *)
(* by advance( it, 50, end ) on the filter's iterator.  The unordered_set  *)
(* is iterated here in increasing id order.                                *)
(***************************************************************************)
\* ++ of the filter's iterator
FilterNext(ids, cache, pos) ==
    LET rest == { x \in ids : x > pos /\ ~IsCached(cache, x) }
    IN  IF rest = {} THEN End ELSE CHOOSE x \in rest : \A y \in rest : x <= y

\* begin() of the filter view
FilterBegin(ids, cache) == FilterNext(ids, cache, 0)

\* ranges::advance( it, n, end )
RECURSIVE Advance(_, _, _, _)
Advance(ids, cache, pos, n) ==
    IF n = 0 \/ pos = End THEN pos
    ELSE Advance(ids, cache, FilterNext(ids, cache, pos), n - 1)

\* take( [it, end), n ), read into a vector
RECURSIVE Take(_, _, _, _)
Take(ids, cache, pos, n) ==
    IF n = 0 \/ pos = End THEN {}
    ELSE {pos} \cup Take(ids, cache, FilterNext(ids, cache, pos), n - 1)

\* line 94: ranges::to<std::unordered_set>
ToSet(seq) == { seq[i] : i \in 1..Len(seq) }

\* The objects a 200 response to a batch request decodes to.
Returned(ids, body) ==
    CASE body = "object" -> ids
      [] body = "partial" -> ids \ {Max(ids)}
      [] OTHER -> {}


(***************************************************************************)
(* Initial state: no operation is running; the caches, which persist on    *)
(* disk, hold what earlier sessions left in them.                          *)
(***************************************************************************)
Init ==
    /\ pc = [t \in Threads |-> "idle"]
    /\ op = [t \in Threads |-> NoOp]
    /\ call = [t \in Threads |-> "none"]
    /\ abort = [t \in Threads |-> FALSE]
    /\ attempt = [t \in Threads |-> 0]
    /\ response = [t \in Threads |-> NoResponse]
    /\ sleepLeft = [t \in Threads |-> 0]
    /\ uniqueIds = [t \in Threads |-> {}]
    /\ it = [t \in Threads |-> End]
    /\ chunk = [t \in Threads |-> {}]
    /\ result = [t \in Threads |-> NoResult]
    /\ \E c \in 0..MaxCached : trackCache = 1..c /\ artistCache = 1..c
    /\ userCache \in BOOLEAN
    /\ permits = 0
    /\ reqCount = [t \in Threads |-> 0]
    /\ respLog = [t \in Threads |-> <<>>]
    /\ sleepLog = [t \in Threads |-> <<>>]
    /\ chunkLog = [t \in Threads |-> <<>>]
    /\ cacheWrites = [t \in Threads |-> {}]
    /\ cache0 = [t \in Threads |-> {}]
    /\ abortAtAcquire = [t \in Threads |-> FALSE]
    /\ abortedAt = [t \in Threads |-> "none"]
    /\ writesAtAbort = [t \in Threads |-> {}]
    /\ reqThisSecond = 0
    /\ tracks = [t \in Threads |-> <<>>]
    /\ localTracks = [t \in Threads |-> <<>>]
    /\ requestUri = [t \in Threads |-> NoUri]
    /\ page = [t \in Threads |-> NoPage]
    /\ lookupMissed = [t \in Threads |-> FALSE]
    /\ uriLog = [t \in Threads |-> <<>>]
    /\ pageLog = [t \in Threads |-> <<>>]
    /\ refreshToken \in {0, 1}
    /\ bearer = [t \in Threads |-> 0]
    /\ userCachedFor = IF userCache THEN 1 ELSE 0
    /\ userReturned = [t \in Threads |-> NoUserReturned]
    /\ cts = FALSE
    /\ pAuth = TRUE
    /\ localCts = [t \in Threads |-> NoCts]
    /\ pcAtCancel = [t \in Threads |-> "none"]
    /\ authUsedAfterReset = [t \in Threads |-> FALSE]
    /\ obj = NoObject
    /\ formatted = <<>>
    /\ parsed = NoObject
    /\ inputStr = NoInput
    /\ isValid = "none"
    /\ webApiStatus = "fetching_login_status"
    /\ dialog = "open"
    /\ login = "none"
    /\ statusThread = "running"

(***************************************************************************)
(* Building blocks of the actions.                                         *)
(***************************************************************************)
callVars == <<call, attempt, response, sleepLeft, reqCount, respLog, sleepLog, abortAtAcquire>>
batchVars == <<uniqueIds, it, chunk, chunkLog, cache0>>
cacheVars == <<trackCache, artistCache, userCache, cacheWrites>>

\* GetJsonResponse( uri, abort ) is entered: GetResponse starts at line 419.
EnterGetResponse(t, uri) ==
    /\ pc' = [pc EXCEPT ![t] = "token"]
    /\ call' = [call EXCEPT ![t] = uri]
    /\ attempt' = [attempt EXCEPT ![t] = 0]
    /\ response' = [response EXCEPT ![t] = NoResponse]
    /\ sleepLeft' = [sleepLeft EXCEPT ![t] = 0]
    /\ reqCount' = [reqCount EXCEPT ![t] = 0]
    /\ respLog' = [respLog EXCEPT ![t] = <<>>]
    /\ sleepLog' = [sleepLog EXCEPT ![t] = <<>>]
    /\ abortAtAcquire' = [abortAtAcquire EXCEPT ![t] = FALSE]

\* The operation returns `kind` ("value" or "error") to its caller.
Return(t, kind, from) ==
    /\ pc' = [pc EXCEPT ![t] = "done"]
    /\ result' = [result EXCEPT ![t] = [kind |-> kind, from |-> from]]

\* An exception leaves the operation: nothing catches it inside the backend.
Throw(t) == Return(t, "error", "none")

(***************************************************************************)
(* GetUser (lines 69-87), called by the host.                              *)
(***************************************************************************)
\* GetUser is entered on thread t, by the host or by a handler of the page.
CallGetUser(t) ==
    /\ pc[t] = "idle"
    /\ op' = [op EXCEPT ![t] = [NoOp EXCEPT !.kind = "GetUser"]]
    /\ IF userCache
       THEN /\ Return(t, "value", "cache")                       \* line 74
            /\ userReturned' = [userReturned EXCEPT ![t] = [user |-> userCachedFor, token |-> refreshToken]]
            /\ UNCHANGED callVars
       ELSE /\ EnterGetResponse(t, "me")                         \* line 81
            /\ UNCHANGED <<result, userReturned>>
    /\ UNCHANGED <<tracksVars, refreshToken, bearer, userCachedFor, shutdownVars, objectVars>>
    /\ UNCHANGED <<abort, abortedAt, writesAtAbort, batchVars, cacheVars, permits, reqThisSecond>>

GetUser(t) ==
    /\ CallGetUser(t)
    /\ UNCHANGED uiVars

(***************************************************************************)
(* GetArtist (lines 361-381).                                              *)
(***************************************************************************)
GetArtist(t) ==
    /\ pc[t] = "idle"
    /\ \E id \in Ids :
        /\ op' = [op EXCEPT ![t] = [NoOp EXCEPT !.kind = "GetArtist", !.id = id]]
        /\ IF IsCached(artistCache, id)
           THEN /\ Return(t, "value", "cache")                   \* line 367
                /\ UNCHANGED callVars
           ELSE /\ EnterGetResponse(t, "artist")                 \* line 376
                /\ UNCHANGED result
    /\ UNCHANGED <<tracksVars, authVars, shutdownVars, objectVars, uiVars>>
    /\ UNCHANGED <<abort, abortedAt, writesAtAbort, batchVars, cacheVars, permits, reqThisSecond>>

(***************************************************************************)
(* GetTrack (lines 118-152).  With useRelink the cached track is looked up *)
(* and not used (line 124), and GetUser is called for the market (line     *)
(* 136): it answers from userCache_ or fetches `me` first.                 *)
(***************************************************************************)
\* (variant: the cached track is never used)
IgnoresCachedTrack(useRelink, cached) == FALSE

\* line 124: !useRelink && trackOpt
UsesCachedTrack(useRelink, cached) == ~useRelink /\ cached

\* (variant: every fetched track is cached)
CachesEveryFetchedTrack(useRelink) == TRUE

\* line 146: if ( !useRelink ) CacheObject
CachesFetchedTrack(useRelink) == ~useRelink

GetTrack(t) ==
    /\ pc[t] = "idle"
    /\ \E id \in Ids, useRelink \in BOOLEAN :
        /\ op' = [op EXCEPT ![t] = [NoOp EXCEPT !.kind = "GetTrack", !.id = id, !.relink = useRelink]]
        /\ cache0' = [cache0 EXCEPT ![t] = trackCache]
        /\ IF UsesCachedTrack(useRelink, IsCached(trackCache, id))
           THEN /\ Return(t, "value", "cache")                   \* line 126
                /\ UNCHANGED callVars
           ELSE /\ IF useRelink /\ ~userCache
                   THEN EnterGetResponse(t, "me")                \* line 136 -> line 81
                   ELSE EnterGetResponse(t, "track")             \* line 143
                /\ UNCHANGED result
    /\ UNCHANGED <<tracksVars, authVars, shutdownVars, objectVars, uiVars>>
    /\ UNCHANGED <<abort, abortedAt, writesAtAbort, uniqueIds, it, chunk, chunkLog, cacheVars, permits, reqThisSecond>>


(***************************************************************************)
(* RefreshCacheForTracks (lines 89-116) and RefreshCacheForArtists (lines  *)
(* 334-359).  The input list holds the ids 1..n followed by copies of the  *)
(* first d of them.                                                        *)
(***************************************************************************)
BatchSizes == {0, 1} \cup { k * kMaxItemsPerRequest + j : k \in 1..MaxChunks, j \in {-1, 0, 1} }
BatchInput(n, d) == [i \in 1..(n + d) |-> IF i <= n THEN i ELSE i - n]
BatchInputs == { BatchInput(n, d) : n \in BatchSizes, d \in 0..MaxDup } \ { BatchInput(0, d) : d \in 1..MaxDup }

BatchCache(uri) == IF uri = "tracks" THEN trackCache ELSE artistCache

\* The loop has ended: RefreshCacheFor* returns to the host, or to GetTracks
\* (line 157), which goes on at line 159.
BatchDone(t, kind) ==
    IF kind = "GetTracks"
    THEN /\ pc' = [pc EXCEPT ![t] = "lookup"]
         /\ UNCHANGED result
    ELSE Return(t, "value", "cache")

\* The loop of lines 96-99 / 339-342 reaches its next chunk, or ends.
EnterChunk(t, kind, uri, ids, pos, cache) ==
    /\ it' = [it EXCEPT ![t] = pos]
    /\ IF pos = End
       THEN /\ BatchDone(t, kind)
            /\ UNCHANGED <<chunk, chunkLog, callVars>>
       ELSE LET c == Take(ids, cache, pos, kMaxItemsPerRequest)
            IN  /\ chunk' = [chunk EXCEPT ![t] = c]                  \* line 101
                /\ chunkLog' = [chunkLog EXCEPT ![t] = Append(@, c)]
                /\ EnterGetResponse(t, uri)                          \* line 108
                /\ UNCHANGED result

StartBatch(t, kind, uri) ==
    /\ pc[t] = "idle"
    /\ \E ids \in BatchInputs :
        /\ op' = [op EXCEPT ![t] = [NoOp EXCEPT !.kind = kind, !.ids = ids]]
        /\ uniqueIds' = [uniqueIds EXCEPT ![t] = ToSet(ids)]         \* line 94
        /\ cache0' = [cache0 EXCEPT ![t] = BatchCache(uri)]
        /\ EnterChunk(t, kind, uri, ToSet(ids), FilterBegin(ToSet(ids), BatchCache(uri)), BatchCache(uri))
    /\ UNCHANGED <<tracksVars, authVars, shutdownVars, objectVars, uiVars>>
    /\ UNCHANGED <<abort, abortedAt, writesAtAbort, cacheVars, permits, reqThisSecond>>

RefreshCacheForTracks(t) == StartBatch(t, "RefreshCacheForTracks", "tracks")

RefreshCacheForArtists(t) == StartBatch(t, "RefreshCacheForArtists", "artists")

(***************************************************************************)
(* GetTracks (lines 154-164): RefreshCacheForTracks( trackIds ), then every *)
(* id of the input list is looked up in trackCache_.  A lookup of an id    *)
(* that is not cached fails the assertion of line 160 where assertions are *)
(* compiled in; elsewhere line 161 dereferences an empty optional, which   *)
(* is undefined: the program dies, or the position holds an indeterminate  *)
(* object.                                                                 *)
(***************************************************************************)
Indeterminate == 0

GetTracks(t) == StartBatch(t, "GetTracks", "tracks")

\* lines 160-161, for one id
LookUp(cache, id) == IF IsCached(cache, id) THEN id ELSE Indeterminate

\* lines 159-163
TracksLookedUp(t) ==
    /\ pc[t] = "lookup"
    /\ LET ids == op[t].ids
           missed == \E i \in 1..Len(ids) : ~IsCached(trackCache, ids[i])
       IN  /\ lookupMissed' = [lookupMissed EXCEPT ![t] = missed]
           /\ \/ /\ tracks' = [tracks EXCEPT ![t] = [i \in 1..Len(ids) |-> LookUp(trackCache, ids[i])]]
                 /\ Return(t, "value", "cache")
              \/ /\ missed
                 /\ pc' = [pc EXCEPT ![t] = "crashed"]
                 /\ UNCHANGED <<tracks, result>>
    /\ UNCHANGED <<localTracks, requestUri, page, uriLog, pageLog, authVars, shutdownVars, objectVars, uiVars>>
    /\ UNCHANGED <<op, abort, abortedAt, writesAtAbort, callVars, batchVars, cacheVars, permits, reqThisSecond>>

(***************************************************************************)
(* GetResponse (lines 419-486): the cancellation of the transport.         *)
(***************************************************************************)
\* (variant: a source of its own, not linked to cts_)
CreateUnlinkedSource == [exists |-> TRUE, linked |-> FALSE, cancelled |-> FALSE]

\* lines 450-451: create_linked_source( cts_.get_token() )
CreateLinkedSource == [exists |-> TRUE, linked |-> TRUE, cancelled |-> FALSE]

\* line 452: the callback of the abortable scope, [&localCts] { localCts.cancel(); }
ScopeCallback(src) == [src EXCEPT !.cancelled = TRUE]

\* line 457: localCts.get_token() is cancelled
TokenCancelled(t) ==
    /\ localCts[t].exists
    /\ localCts[t].cancelled \/ (localCts[t].linked /\ cts)

\* GetResponse is left, by return or by exception: abortableScope and localCts
\* are destroyed.
LeaveScope(t) == localCts' = [localCts EXCEPT ![t] = NoCts]

(***************************************************************************)
(* GetTracksFromPlaylist (lines 166-220).  A playlist item is a track or a *)
(* local track; the server serves the playlist page by page, each page a   *)
(* paging object with its items and the uri of the next page, if any.      *)
(***************************************************************************)
LocalIds == {MaxId + 1}
PlaylistItems ==
    { [is_local |-> FALSE, id |-> i] : i \in Ids } \cup { [is_local |-> TRUE, id |-> i] : i \in LocalIds }

\* lines 173-180: playlists/{id}/tracks?limit=100
PlaylistUri == [path |-> "playlists/{id}/tracks", limit |-> kMaxItemsPerPlaylistRequest, offset |-> 0]

\* The `next` uris the server hands out: whatever it likes.
NextUris ==
    { [path |-> "playlists/{id}/tracks", limit |-> kMaxItemsPerPlaylistRequest, offset |-> kMaxItemsPerPlaylistRequest],
      [path |-> "playlists/{id}/tracks", limit |-> kMaxItemsPerRequest, offset |-> 2 * kMaxItemsPerPlaylistRequest] }

PageItems == UNION { [1..n -> PlaylistItems] : n \in 0..MaxPageItems }

\* The pages the server can answer with, `served` pages having been served.
ServerPages(served) ==
    { [items |-> i, next |-> n] :
        i \in PageItems, n \in IF served + 1 < MaxPages THEN NextUris \cup {NoUri} ELSE {NoUri} }

\* lines 190-208: the visit of the items of a page, in order
RECURSIVE Visit(_, _, _)
Visit(items, ts, ls) ==
    IF items = <<>> THEN [tracks |-> ts, localTracks |-> ls]
    ELSE IF Head(items).is_local
         THEN Visit(Tail(items), ts, Append(ls, Head(items).id))         \* line 200
         ELSE Visit(Tail(items), Append(ts, Head(items).id), ls)         \* line 196

\* (variant: the loop never breaks)
NeverLastPage(p) == FALSE

\* lines 210 and 258: if ( !pPagingObject->next ) break
IsLastPage(p) == p.next = NoUri

\* (variant: the request uri is left as it was)
KeepsRequestUri(p, uri) == uri

\* line 215: requestUri = *pPagingObject->next
NextRequestUri(p, uri) == p.next

\* (variant: the local tracks are cached as well)
CachedWithLocalTracks(ts, ls) == ToSet(ts) \cup ToSet(ls)

\* line 218: trackCache_.CacheObjects( tracks )
CachedFromPlaylist(ts, ls) == ToSet(ts)

GetTracksFromPlaylist(t) ==
    /\ pc[t] = "idle"
    /\ op' = [op EXCEPT ![t] = [NoOp EXCEPT !.kind = "GetTracksFromPlaylist"]]
    /\ requestUri' = [requestUri EXCEPT ![t] = PlaylistUri]                  \* lines 173-180
    /\ tracks' = [tracks EXCEPT ![t] = <<>>]                                 \* line 182
    /\ localTracks' = [localTracks EXCEPT ![t] = <<>>]                       \* line 183
    /\ uriLog' = [uriLog EXCEPT ![t] = <<PlaylistUri>>]
    /\ pageLog' = [pageLog EXCEPT ![t] = <<>>]
    /\ cache0' = [cache0 EXCEPT ![t] = trackCache]
    /\ EnterGetResponse(t, "playlist")                                      \* line 186
    /\ UNCHANGED <<page, lookupMissed, authVars, shutdownVars, objectVars, uiVars>>
    /\ UNCHANGED <<abort, abortedAt, writesAtAbort, result, uniqueIds, it, chunk, chunkLog,
                   cacheVars, permits, reqThisSecond>>

\* line 457, for a request of a playlist page: the response, and the paging
\* object a 200 response with a well-formed body holds.
ReceivePageFrom(t, answers) ==
    /\ pc[t] = "inflight"
    /\ call[t] = "playlist"
    /\ ~TokenCancelled(t)
    /\ \E r \in answers :
        /\ response' = [response EXCEPT ![t] = r]
        /\ respLog' = [respLog EXCEPT ![t] = Append(@, r)]
        /\ IF r.status = kOk /\ r.body = "object"
           THEN \E p \in ServerPages(Len(pageLog[t])) : page' = [page EXCEPT ![t] = p]
           ELSE page' = [page EXCEPT ![t] = NoPage]
    /\ pc' = [pc EXCEPT ![t] = "got"]
    /\ UNCHANGED <<tracks, localTracks, requestUri, lookupMissed, uriLog, pageLog, authVars,
                   shutdownVars, objectVars, uiVars>>
    /\ UNCHANGED <<op, abort, abortedAt, writesAtAbort, call, attempt, sleepLeft, reqCount, sleepLog,
                   abortAtAcquire, result, batchVars, cacheVars, permits, reqThisSecond>>

ReceivePage(t) == ReceivePageFrom(t, ServerResponses(call[t]))

\* lines 187-219: the page is decoded and its items are visited; then the
\* loop ends, the tracks are cached and the two vectors returned, or the next
\* page is requested.
PageFetched(t) ==
    /\ pc[t] = "ret"
    /\ call[t] = "playlist"
    /\ ParseResponseOk(response[t])
    /\ IF response[t].body = "nokey"
       THEN /\ Throw(t)                                                      \* lines 187, 189
            /\ UNCHANGED <<callVars, cacheVars, tracks, localTracks, requestUri, uriLog, pageLog>>
       ELSE LET v == Visit(page[t].items, tracks[t], localTracks[t])
            IN  /\ tracks' = [tracks EXCEPT ![t] = v.tracks]
                /\ localTracks' = [localTracks EXCEPT ![t] = v.localTracks]
                /\ pageLog' = [pageLog EXCEPT ![t] =
                                  Append(@, [items |-> page[t].items, next |-> page[t].next,
                                             requests |-> reqCount[t], retried |-> Len(respLog[t]) - 1])]
                /\ IF IsLastPage(page[t])
                   THEN LET new == CachedFromPlaylist(v.tracks, v.localTracks)
                        IN  /\ trackCache' = CacheObjects(trackCache, new)   \* line 218
                            /\ cacheWrites' = [cacheWrites EXCEPT ![t] = @ \cup { <<"track", id>> : id \in new }]
                            /\ Return(t, "value", "network")                 \* line 219
                            /\ UNCHANGED <<callVars, requestUri, uriLog, artistCache, userCache>>
                   ELSE LET uri == NextRequestUri(page[t], requestUri[t])
                        IN  /\ requestUri' = [requestUri EXCEPT ![t] = uri]  \* line 215
                            /\ uriLog' = [uriLog EXCEPT ![t] = Append(@, uri)]
                            /\ EnterGetResponse(t, "playlist")               \* line 186
                            /\ UNCHANGED <<result, cacheVars>>
    /\ UNCHANGED <<page, lookupMissed, authVars, shutdownVars, objectVars, uiVars>>
    /\ UNCHANGED <<op, abort, abortedAt, writesAtAbort, batchVars, permits, reqThisSecond>>

(***************************************************************************)
(* GetTracksFromAlbum (lines 222-270).  The first request goes to          *)
(* albums/{id}; its `tracks` member is the first paging object.  While the *)
(* paging object has a `next`, the page behind it is requested.            *)
(***************************************************************************)
\* The ids of a sequence of items.
IdsOf(items) == [i \in 1..Len(items) |-> items[i].id]

\* lines 234-235: albums/{id}
AlbumUri == [path |-> "albums/{id}", limit |-> 0, offset |-> 0]

\* The `next` uris the server hands out for the tracks of an album.
AlbumNextUris ==
    { [path |-> "albums/{id}/tracks", limit |-> kMaxItemsPerRequest, offset |-> kMaxItemsPerRequest],
      [path |-> "albums/{id}/tracks", limit |-> kMaxItemsPerRequest, offset |-> 2 * kMaxItemsPerRequest] }

\* The items of an album are tracks.
AlbumItems == { [is_local |-> FALSE, id |-> i] : i \in Ids }
AlbumPageItems == UNION { [1..n -> AlbumItems] : n \in 0..MaxPageItems }

\* The paging objects the server can answer with, `served` having been served.
AlbumPages(served) ==
    { [items |-> i, next |-> n] :
        i \in AlbumPageItems, n \in IF served + 1 < MaxPages THEN AlbumNextUris \cup {NoUri} ELSE {NoUri} }

\* lines 230-247: is_empty() holds of the default-constructed requestUri
AlbumCall(uri) == IF uri = NoUri THEN "album" ELSE "albumtracks"

GetTracksFromAlbum(t) ==
    /\ pc[t] = "idle"
    /\ op' = [op EXCEPT ![t] = [NoOp EXCEPT !.kind = "GetTracksFromAlbum"]]
    /\ requestUri' = [requestUri EXCEPT ![t] = NoUri]                        \* line 226
    /\ tracks' = [tracks EXCEPT ![t] = <<>>]                                 \* line 227
    /\ uriLog' = [uriLog EXCEPT ![t] = <<AlbumUri>>]
    /\ pageLog' = [pageLog EXCEPT ![t] = <<>>]
    /\ cache0' = [cache0 EXCEPT ![t] = trackCache]
    /\ EnterGetResponse(t, AlbumCall(NoUri))                                \* line 237
    /\ UNCHANGED <<localTracks, page, lookupMissed, authVars, shutdownVars, objectVars, uiVars>>
    /\ UNCHANGED <<abort, abortedAt, writesAtAbort, result, uniqueIds, it, chunk, chunkLog,
                   cacheVars, permits, reqThisSecond>>

\* line 457, for a request of GetTracksFromAlbum: the response, and the
\* paging object a 200 response with a well-formed body holds.
ReceiveAlbumFrom(t, answers) ==
    /\ pc[t] = "inflight"
    /\ call[t] \in {"album", "albumtracks"}
    /\ ~TokenCancelled(t)
    /\ \E r \in answers :
        /\ response' = [response EXCEPT ![t] = r]
        /\ respLog' = [respLog EXCEPT ![t] = Append(@, r)]
        /\ IF r.status = kOk /\ r.body = "object"
           THEN \E p \in AlbumPages(Len(pageLog[t])) : page' = [page EXCEPT ![t] = p]
           ELSE page' = [page EXCEPT ![t] = NoPage]
    /\ pc' = [pc EXCEPT ![t] = "got"]
    /\ UNCHANGED <<tracks, localTracks, requestUri, lookupMissed, uriLog, pageLog, authVars,
                   shutdownVars, objectVars, uiVars>>
    /\ UNCHANGED <<op, abort, abortedAt, writesAtAbort, call, attempt, sleepLeft, reqCount, sleepLog,
                   abortAtAcquire, result, batchVars, cacheVars, permits, reqThisSecond>>

\* lines 238-269: the paging object is taken from the album or is the
\* response itself; its items are appended; then the loop ends, the tracks
\* are cached and returned, or the next page is requested.
AlbumPageFetched(t) ==
    /\ pc[t] = "ret"
    /\ call[t] \in {"album", "albumtracks"}
    /\ ParseResponseOk(response[t])
    /\ IF response[t].body = "nokey"
       THEN /\ Throw(t)                                                      \* lines 238, 241, 251
            /\ UNCHANGED <<callVars, cacheVars, tracks, requestUri, uriLog, pageLog>>
       ELSE LET ret == tracks[t] \o IdsOf(page[t].items)                     \* lines 253-254
            IN  /\ tracks' = [tracks EXCEPT ![t] = ret]
                /\ pageLog' = [pageLog EXCEPT ![t] =
                                  Append(@, [items |-> page[t].items, next |-> page[t].next,
                                             requests |-> reqCount[t], retried |-> Len(respLog[t]) - 1])]
                /\ IF IsLastPage(page[t])                                    \* line 256
                   THEN /\ trackCache' = CacheObjects(trackCache, ToSet(ret))       \* line 268
                        /\ cacheWrites' = [cacheWrites EXCEPT ![t] = @ \cup { <<"track", id>> : id \in ToSet(ret) }]
                        /\ Return(t, "value", "network")                     \* line 269
                        /\ UNCHANGED <<callVars, requestUri, uriLog, artistCache, userCache>>
                   ELSE /\ requestUri' = [requestUri EXCEPT ![t] = page[t].next]    \* line 261
                        /\ uriLog' = [uriLog EXCEPT ![t] = Append(@, page[t].next)]
                        /\ EnterGetResponse(t, AlbumCall(page[t].next))     \* line 247
                        /\ UNCHANGED <<result, cacheVars>>
    /\ UNCHANGED <<localTracks, page, lookupMissed, authVars, shutdownVars, objectVars, uiVars>>
    /\ UNCHANGED <<op, abort, abortedAt, writesAtAbort, batchVars, permits, reqThisSecond>>

(***************************************************************************)
(* GetResponse (lines 419-486).                                            *)
(***************************************************************************)
\* line 441: pAuth_->GetAccessToken( abort ) returns a bearer or throws.
GetAccessToken(t) ==
    /\ pc[t] = "token"
    /\ IF ~pAuth
       THEN \* pAuth_ is null: the call is undefined; the program dies or goes on
            /\ authUsedAfterReset' = [authUsedAfterReset EXCEPT ![t] = TRUE]
            /\ \E next \in {"crashed", "wait"} : pc' = [pc EXCEPT ![t] = next]
            /\ UNCHANGED <<result, bearer>>
       ELSE /\ \/ /\ refreshToken # 0
                  /\ pc' = [pc EXCEPT ![t] = "wait"]
                  /\ bearer' = [bearer EXCEPT ![t] = refreshToken]
                  /\ UNCHANGED result
               \/ /\ Throw(t)
                  /\ UNCHANGED bearer
            /\ UNCHANGED authUsedAfterReset
    /\ UNCHANGED <<tracksVars, refreshToken, userCachedFor, userReturned, cts, pAuth, localCts, pcAtCancel, objectVars, uiVars>>
    /\ UNCHANGED <<op, abort, abortedAt, writesAtAbort, callVars, batchVars, cacheVars, permits, reqThisSecond>>

\* line 447: rpsLimiter_.WaitForRequestAvailability( abort ) returns with a
\* permit of the current second, or because the abort was signalled.
WaitForRequestAvailability(t) ==
    /\ pc[t] = "wait"
    /\ \/ /\ permits < kRpsLimit
          /\ permits' = permits + 1
       \/ /\ abort[t]
          /\ UNCHANGED permits
    /\ pc' = [pc EXCEPT ![t] = "check"]
    /\ abortAtAcquire' = [abortAtAcquire EXCEPT ![t] = abort[t]]
    /\ UNCHANGED <<tracksVars, authVars, shutdownVars, objectVars, uiVars>>
    /\ UNCHANGED <<op, abort, abortedAt, writesAtAbort, call, attempt, response, sleepLeft, reqCount,
                   respLog, sleepLog, result, batchVars, cacheVars, reqThisSecond>>

\* line 448, then lines 450-454: the linked cancellation source and the scope.
CheckAbort(t) ==
    /\ pc[t] = "check"
    /\ IF AbortCheckFails(t)
       THEN Throw(t)
       ELSE /\ pc' = [pc EXCEPT ![t] = "request"]
            /\ UNCHANGED result
    /\ localCts' = [localCts EXCEPT ![t] = IF AbortCheckFails(t) THEN NoCts ELSE CreateLinkedSource]
    /\ UNCHANGED <<tracksVars, authVars, cts, pAuth, pcAtCancel, authUsedAfterReset, objectVars, uiVars>>
    /\ UNCHANGED <<op, abort, abortedAt, writesAtAbort, callVars, batchVars, cacheVars, permits, reqThisSecond>>

\* line 457: client_.request( req, token ) sends the request.
SendRequest(t) ==
    /\ pc[t] = "request"
    /\ pc' = [pc EXCEPT ![t] = "inflight"]
    /\ reqCount' = [reqCount EXCEPT ![t] = @ + 1]
    /\ reqThisSecond' = reqThisSecond + 1
    /\ UNCHANGED <<tracksVars, authVars, shutdownVars, objectVars, uiVars>>
    /\ UNCHANGED <<op, abort, abortedAt, writesAtAbort, call, attempt, response, sleepLeft, respLog,
                   sleepLog, abortAtAcquire, result, batchVars, cacheVars, permits>>

\* line 457: .get() returns the response the server sent, one of `answers`;
\* the transport delivers none once its token is cancelled.
Receive(t, answers) ==
    /\ pc[t] = "inflight"
    /\ ~TokenCancelled(t)
    /\ \E r \in answers :
        /\ response' = [response EXCEPT ![t] = r]
        /\ respLog' = [respLog EXCEPT ![t] = Append(@, r)]
    /\ pc' = [pc EXCEPT ![t] = "got"]
    /\ UNCHANGED <<tracksVars, authVars, shutdownVars, objectVars, uiVars>>
    /\ UNCHANGED <<op, abort, abortedAt, writesAtAbort, call, attempt, sleepLeft, reqCount, sleepLog,
                   abortAtAcquire, result, batchVars, cacheVars, permits, reqThisSecond>>

ReceiveResponse(t) == Receive(t, ServerResponses(call[t]))

\* A server under load: it answers, or turns the request down for now.
LoadResponses ==
    { [status |-> kOk, retryAfter |-> "absent", body |-> "object"],
      [status |-> kTooManyRequests, retryAfter |-> "0", body |-> "none"] }

ReceiveUnderLoad(t) == Receive(t, LoadResponses)

\* line 457: the token is cancelled; .get() throws.
RequestCanceled(t) ==
    /\ pc[t] = "inflight"
    /\ TokenCancelled(t)
    /\ Throw(t)
    /\ LeaveScope(t)
    /\ UNCHANGED <<tracksVars, authVars, cts, pAuth, pcAtCancel, authUsedAfterReset, objectVars, uiVars>>
    /\ UNCHANGED <<op, abort, abortedAt, writesAtAbort, callVars, batchVars, cacheVars, permits, reqThisSecond>>

\* (variant: no sleep after the 429 of the last attempt)
HandleResponseLastUnslept(t) ==
    /\ pc[t] = "got"
    /\ IF ~IsRetriedStatus(response[t].status) \/ ~LoopContinues(attempt[t] + 1)
       THEN /\ pc' = [pc EXCEPT ![t] = "ret"]
            /\ UNCHANGED <<result, sleepLeft, sleepLog>>
       ELSE IF ~RetryAfterValid(response[t])
       THEN /\ Throw(t)
            /\ UNCHANGED <<sleepLeft, sleepLog>>
       ELSE /\ pc' = [pc EXCEPT ![t] = "sleep"]
            /\ sleepLeft' = [sleepLeft EXCEPT ![t] = RetryIn(response[t]) \div OneSecondMs]
            /\ sleepLog' = [sleepLog EXCEPT ![t] =
                              Append(@, [ms |-> RetryIn(response[t]), sleptMs |-> 0, completed |-> FALSE])]
            /\ UNCHANGED result
    /\ IF pc'[t] = "sleep" THEN UNCHANGED localCts ELSE LeaveScope(t)
    /\ UNCHANGED <<tracksVars, authVars, cts, pAuth, pcAtCancel, authUsedAfterReset, objectVars, uiVars>>
    /\ UNCHANGED <<op, abort, abortedAt, writesAtAbort, call, attempt, response, reqCount, respLog,
                   abortAtAcquire, batchVars, cacheVars, permits, reqThisSecond>>

\* lines 458-473: leave the loop, throw, or start the retry sleep.
HandleResponse(t) ==
    /\ pc[t] = "got"
    /\ IF ~IsRetriedStatus(response[t].status)
       THEN /\ pc' = [pc EXCEPT ![t] = "ret"]                                      \* line 460
            /\ UNCHANGED <<result, sleepLeft, sleepLog>>
       ELSE IF ~RetryAfterValid(response[t])
       THEN /\ Throw(t)                                                            \* lines 464, 468
            /\ UNCHANGED <<sleepLeft, sleepLog>>
       ELSE /\ pc' = [pc EXCEPT ![t] = "sleep"]                                    \* line 473
            /\ sleepLeft' = [sleepLeft EXCEPT ![t] = RetryIn(response[t]) \div OneSecondMs]
            /\ sleepLog' = [sleepLog EXCEPT ![t] =
                              Append(@, [ms |-> RetryIn(response[t]), sleptMs |-> 0, completed |-> FALSE])]
            /\ UNCHANGED result
    /\ IF IsRetriedStatus(response[t].status) /\ RetryAfterValid(response[t])
       THEN UNCHANGED localCts
       ELSE LeaveScope(t)
    /\ UNCHANGED <<tracksVars, authVars, cts, pAuth, pcAtCancel, authUsedAfterReset, objectVars, uiVars>>
    /\ UNCHANGED <<op, abort, abortedAt, writesAtAbort, call, attempt, response, reqCount, respLog,
                   abortAtAcquire, batchVars, cacheVars, permits, reqThisSecond>>

\* (variant: a retry starts over at the access token and the limiter)
SleepCompletedStartsOver(t) ==
    /\ pc[t] = "sleep"
    /\ sleepLeft[t] = 0
    /\ ~abort[t]
    /\ attempt' = [attempt EXCEPT ![t] = @ + 1]
    /\ sleepLog' = [sleepLog EXCEPT ![t][Len(sleepLog[t])].completed = TRUE]
    /\ pc' = [pc EXCEPT ![t] = IF LoopContinues(attempt[t] + 1) THEN "token" ELSE "ret"]
    /\ LeaveScope(t)
    /\ UNCHANGED <<tracksVars, authVars, cts, pAuth, pcAtCancel, authUsedAfterReset, objectVars, uiVars>>
    /\ UNCHANGED <<op, abort, abortedAt, writesAtAbort, call, response, sleepLeft, reqCount, respLog,
                   abortAtAcquire, result, batchVars, cacheVars, permits, reqThisSecond>>

\* line 473: SleepFor returned true; ++i and the loop condition (line 455).
SleepCompleted(t) ==
    /\ pc[t] = "sleep"
    /\ sleepLeft[t] = 0
    /\ ~abort[t]
    /\ attempt' = [attempt EXCEPT ![t] = @ + 1]
    /\ sleepLog' = [sleepLog EXCEPT ![t][Len(sleepLog[t])].completed = TRUE]
    /\ pc' = [pc EXCEPT ![t] = IF LoopContinues(attempt[t] + 1) THEN "request" ELSE "ret"]
    /\ IF LoopContinues(attempt[t] + 1) THEN UNCHANGED localCts ELSE LeaveScope(t)
    /\ UNCHANGED <<tracksVars, authVars, cts, pAuth, pcAtCancel, authUsedAfterReset, objectVars, uiVars>>
    /\ UNCHANGED <<op, abort, abortedAt, writesAtAbort, call, response, sleepLeft, reqCount, respLog,
                   abortAtAcquire, result, batchVars, cacheVars, permits, reqThisSecond>>

\* (variant: the loop goes on after an aborted sleep)
SleepAbortedGoesOn(t) ==
    /\ pc[t] = "sleep"
    /\ abort[t]
    /\ attempt' = [attempt EXCEPT ![t] = @ + 1]
    /\ pc' = [pc EXCEPT ![t] = IF LoopContinues(attempt[t] + 1) THEN "request" ELSE "ret"]
    /\ IF LoopContinues(attempt[t] + 1) THEN UNCHANGED localCts ELSE LeaveScope(t)
    /\ UNCHANGED <<tracksVars, authVars, cts, pAuth, pcAtCancel, authUsedAfterReset, objectVars, uiVars>>
    /\ UNCHANGED <<op, abort, abortedAt, writesAtAbort, call, response, sleepLeft, reqCount, respLog,
                   sleepLog, abortAtAcquire, result, batchVars, cacheVars, permits, reqThisSecond>>

\* lines 473-476: SleepFor returned false, the abort was signalled; break.
SleepAborted(t) ==
    /\ pc[t] = "sleep"
    /\ abort[t]
    /\ pc' = [pc EXCEPT ![t] = "ret"]
    /\ LeaveScope(t)
    /\ UNCHANGED <<tracksVars, authVars, cts, pAuth, pcAtCancel, authUsedAfterReset, objectVars, uiVars>>
    /\ UNCHANGED <<op, abort, abortedAt, writesAtAbort, callVars, result, batchVars, cacheVars,
                   permits, reqThisSecond>>


(***************************************************************************)
(* GetResponse has returned `response` (line 485).  GetJsonResponse hands  *)
(* it to ParseResponse (line 416) and the operation goes on with the JSON  *)
(* value: it decodes the object, caches it and returns, or fetches again.  *)
(***************************************************************************)
\* ParseResponse throws (lines 492, 509, 515).
ResponseRejected(t) ==
    /\ pc[t] = "ret"
    /\ ~ParseResponseOk(response[t])
    /\ Throw(t)
    /\ UNCHANGED <<tracksVars, authVars, shutdownVars, objectVars, uiVars>>
    /\ UNCHANGED <<op, abort, abortedAt, writesAtAbort, callVars, batchVars, cacheVars, permits, reqThisSecond>>

\* GetUser, lines 82-85; inside GetTrack the caller goes on at line 136.
UserFetched(t) ==
    /\ pc[t] = "ret"
    /\ call[t] = "me"
    /\ ParseResponseOk(response[t])
    /\ userCache' = TRUE                                                     \* line 84
    /\ userCachedFor' = bearer[t]
    /\ cacheWrites' = [cacheWrites EXCEPT ![t] = @ \cup {<<"user", 0>>}]
    /\ IF op[t].kind = "GetUser"
       THEN /\ Return(t, "value", "network")                                 \* line 85
            /\ userReturned' = [userReturned EXCEPT ![t] = [user |-> bearer[t], token |-> bearer[t]]]
            /\ UNCHANGED callVars
       ELSE /\ EnterGetResponse(t, "track")                                  \* line 143
            /\ UNCHANGED <<result, userReturned>>
    /\ UNCHANGED <<tracksVars, refreshToken, bearer, shutdownVars, objectVars, uiVars>>
    /\ UNCHANGED <<op, abort, abortedAt, writesAtAbort, batchVars, trackCache, artistCache, permits, reqThisSecond>>

\* GetArtist, lines 377-379.
ArtistFetched(t) ==
    /\ pc[t] = "ret"
    /\ call[t] = "artist"
    /\ ParseResponseOk(response[t])
    /\ artistCache' = CacheObjects(artistCache, {op[t].id})                  \* line 378
    /\ cacheWrites' = [cacheWrites EXCEPT ![t] = @ \cup {<<"artist", op[t].id>>}]
    /\ Return(t, "value", "network")
    /\ UNCHANGED <<tracksVars, authVars, shutdownVars, objectVars, uiVars>>
    /\ UNCHANGED <<op, abort, abortedAt, writesAtAbort, callVars, batchVars, trackCache, userCache, permits, reqThisSecond>>

\* GetTrack, lines 144-150.
TrackFetched(t) ==
    /\ pc[t] = "ret"
    /\ call[t] = "track"
    /\ ParseResponseOk(response[t])
    /\ IF CachesFetchedTrack(op[t].relink)
       THEN /\ trackCache' = CacheObjects(trackCache, {op[t].id})            \* line 148
            /\ cacheWrites' = [cacheWrites EXCEPT ![t] = @ \cup {<<"track", op[t].id>>}]
       ELSE UNCHANGED <<trackCache, cacheWrites>>
    /\ Return(t, "value", "network")
    /\ UNCHANGED <<tracksVars, authVars, shutdownVars, objectVars, uiVars>>
    /\ UNCHANGED <<op, abort, abortedAt, writesAtAbort, callVars, batchVars, artistCache, userCache, permits, reqThisSecond>>

\* RefreshCacheForTracks, lines 109-114, and RefreshCacheForArtists, lines
\* 352-357; then the increment of the chunk view's iterator and the next
\* turn of the loop (lines 96-99, 339-342).
ChunkFetched(t) ==
    /\ pc[t] = "ret"
    /\ IsBatchUri(call[t])
    /\ ParseResponseOk(response[t])
    /\ IF response[t].body = "nokey"
       THEN /\ Throw(t)                                                      \* lines 110, 353
            /\ UNCHANGED <<callVars, batchVars, cacheVars>>
       ELSE LET got == Returned(chunk[t], response[t].body)
                cache == CacheObjects(BatchCache(call[t]), got)              \* lines 114, 357
            IN  /\ IF call[t] = "tracks"
                   THEN trackCache' = cache /\ UNCHANGED artistCache
                   ELSE artistCache' = cache /\ UNCHANGED trackCache
                /\ cacheWrites' = [cacheWrites EXCEPT ![t] =
                                     @ \cup { <<IF call[t] = "tracks" THEN "track" ELSE "artist", id>> : id \in got }]
                /\ EnterChunk(t, op[t].kind, call[t], uniqueIds[t],
                              Advance(uniqueIds[t], cache, it[t], kMaxItemsPerRequest), cache)
                /\ UNCHANGED <<uniqueIds, cache0, userCache>>
    /\ UNCHANGED <<tracksVars, authVars, shutdownVars, objectVars, uiVars>>
    /\ UNCHANGED <<op, abort, abortedAt, writesAtAbort, permits, reqThisSecond>>

(***************************************************************************)
(* SpotifyObject (spotify_object.cpp).  A string is the sequence of its    *)
(* characters.                                                             *)
(***************************************************************************)
schemaPrefix == <<"s", "p", "t", "f", ":", "/", "/">>                                  \* line 38
urlPrefix == <<"h", "t", "t", "p", "s", ":", "/", "/", "o", "p", "e", "n", ".", "s", "p", "o", "t", "i", "f", "y", ".", "c", "o", "m", "/">>   \* line 44
uriPrefix == <<"s", "p", "o", "t", "i", "f", "y">>                        \* line 72
TrackType == <<"t", "r", "a", "c", "k">>
AlbumType == <<"a", "l", "b", "u", "m">>
PlaylistType == <<"p", "l", "a", "y", "l", "i", "s", "t">>
EpisodeType == <<"e", "p", "i", "s", "o", "d", "e">>

\* The characters of an id: a letter, and the separators of the three forms.
IdChars == {"a", ":", "/", "?"}
IdStrings == UNION { [1..n -> IdChars] : n \in 0..MaxIdLen }
TypeStrings == {TrackType, AlbumType, PlaylistType, EpisodeType}

\* A variant that also takes the `episode` tag.
IsValidTypeOrEpisode(type) == type \in {TrackType, AlbumType, PlaylistType, EpisodeType}

\* line 14
IsValidType(type) == type \in {TrackType, AlbumType, PlaylistType}

\* std::string_view::_Starts_with
StartsWith(str, prefix) ==
    /\ Len(str) >= Len(prefix)
    /\ SubSeq(str, 1, Len(prefix)) = prefix

\* std::string_view::remove_prefix
RemovePrefix(str, n) == SubSeq(str, n + 1, Len(str))

\* std::string_view::find( ch ): the first position of ch, 0 when there is none
Find(str, ch) ==
    IF \E i \in 1..Len(str) : str[i] = ch
    THEN CHOOSE i \in 1..Len(str) : str[i] = ch /\ \A j \in 1..(i - 1) : str[j] # ch
    ELSE 0

\* qwr::string::Split( str, separator ): the parts between the separators,
\* empty parts included
RECURSIVE Split(_, _)
Split(str, sep) ==
    LET pos == Find(str, sep)
    IN  IF pos = 0 THEN <<str>>
        ELSE <<SubSeq(str, 1, pos - 1)>> \o Split(RemovePrefix(str, pos), sep)

\* lines 56-64: the id, up to the first `?`
StripQuery(localId) ==
    LET pos == Find(localId, "?")
    IN  IF pos = 0 THEN localId ELSE SubSeq(localId, 1, pos - 1)

Invalid == [type |-> <<>>, id |-> <<>>, valid |-> FALSE, by |-> "parse"]
Parsed(type, id) == [type |-> type, id |-> id, valid |-> TRUE, by |-> "parse"]

\* lines 36-82: SpotifyObject( input ); `valid` is FALSE when it throws
SpotifyObject(input) ==
    LET in1 == IF StartsWith(input, schemaPrefix)                              \* lines 39-42
               THEN RemovePrefix(input, Len(schemaPrefix)) ELSE input
    IN  IF StartsWith(in1, urlPrefix)                                          \* line 45
        THEN LET ret == Split(RemovePrefix(in1, Len(urlPrefix)), "/")          \* lines 47-49
             IN  IF Len(ret) # 2 THEN Invalid                                  \* line 50
                 ELSE IF ~IsValidType(ret[1]) THEN Invalid                     \* line 53
                 ELSE IF StripQuery(ret[2]) = <<>> THEN Invalid                \* line 65
                 ELSE Parsed(ret[1], StripQuery(ret[2]))
        ELSE LET ret == Split(in1, ":")                                        \* line 70
             IN  IF Len(ret) # 3 THEN Invalid                                  \* line 71
                 ELSE IF ret[1] # uriPrefix THEN Invalid                       \* line 72
                 ELSE IF ~IsValidType(ret[2]) THEN Invalid                     \* line 75
                 ELSE IF ret[3] = <<>> THEN Invalid                            \* line 79
                 ELSE Parsed(ret[2], ret[3])

\* lines 84-89: SpotifyObject( type, id )
SpotifyObjectOf(type, id) == [type |-> type, id |-> id, valid |-> IsValidType(type), by |-> "type and id"]

\* lines 22-34
IsValid(input) == SpotifyObject(input).valid

\* line 93: "spotify:{}:{}"
ToUri(o) == uriPrefix \o <<":">> \o o.type \o <<":">> \o o.id

\* line 98: "https://open.spotify.com/{}/{}"
ToUrl(o) == urlPrefix \o o.type \o <<"/">> \o o.id

\* line 103: "sptf://spotify:{}:{}"
ToSchema(o) == schemaPrefix \o uriPrefix \o <<":">> \o o.type \o <<":">> \o o.id

\* Strings of no accepted shape: too few parts, a foreign first part.
Malformed ==
    { <<>>,
      uriPrefix \o <<":">> \o TrackType,
      <<"x">> \o uriPrefix \o <<":">> \o TrackType \o <<":", "a">>,
      urlPrefix \o TrackType,
      schemaPrefix \o uriPrefix \o <<":">> \o AlbumType }

\* The strings the host hands to SpotifyObject( input ): the three forms of a
\* type and an id, a url with the scheme prefix, and malformed strings.
Inputs ==
    Malformed \cup
    UNION { LET o == [type |-> type, id |-> id]
            IN  {ToUri(o), ToUrl(o), ToSchema(o), schemaPrefix \o ToUrl(o)} :
            type \in TypeStrings, id \in IdStrings }

\* The host builds an object from a string; no object exists when it throws.
ParseInput ==
    /\ obj = NoObject
    /\ ~inputStr.given
    /\ \E input \in Inputs :
        /\ inputStr' = [given |-> TRUE, text |-> input]
        /\ obj' = SpotifyObject(input)
    /\ UNCHANGED <<procVars, sharedVars, histVars, tracksVars, authVars, shutdownVars, uiVars, formatted, parsed, isValid>>

\* The host asks SpotifyObject::IsValid about the same string.
IsValidCalled ==
    /\ inputStr.given
    /\ isValid = "none"
    /\ isValid' = IF IsValid(inputStr.text) THEN "true" ELSE "false"
    /\ UNCHANGED <<procVars, sharedVars, histVars, tracksVars, authVars, shutdownVars, uiVars, obj, formatted, parsed, inputStr>>

\* The host builds an object from a type and an id.
BuildFromTypeAndId ==
    /\ obj = NoObject
    /\ ~inputStr.given
    /\ \E type \in TypeStrings, id \in IdStrings :
        /\ SpotifyObjectOf(type, id).valid
        /\ obj' = SpotifyObjectOf(type, id)
    /\ UNCHANGED <<procVars, sharedVars, histVars, tracksVars, authVars, shutdownVars, uiVars, formatted, parsed, inputStr, isValid>>

\* ToUri, ToUrl or ToSchema of the object.
Format ==
    /\ obj.valid
    /\ formatted = <<>>
    /\ formatted' \in {ToUri(obj), ToUrl(obj), ToSchema(obj)}
    /\ UNCHANGED <<procVars, sharedVars, histVars, tracksVars, authVars, shutdownVars, uiVars, obj, parsed, inputStr, isValid>>

\* SpotifyObject( formatted )
ParseFormatted ==
    /\ formatted # <<>>
    /\ parsed = NoObject
    /\ parsed' = SpotifyObject(formatted)
    /\ UNCHANGED <<procVars, sharedVars, histVars, tracksVars, authVars, shutdownVars, uiVars, obj, formatted, inputStr, isValid>>

(***************************************************************************)
(* The environment.                                                        *)
(***************************************************************************)
\* The host signals the abort of a running operation; inside the abortable
\* scope of line 452 the abort manager runs the scope's callback.
Abort(t) ==
    /\ pc[t] \notin {"idle", "done", "crashed"}
    /\ ~abort[t]
    /\ abort' = [abort EXCEPT ![t] = TRUE]
    /\ abortedAt' = [abortedAt EXCEPT ![t] = pc[t]]
    /\ writesAtAbort' = [writesAtAbort EXCEPT ![t] = cacheWrites[t]]
    /\ localCts' = [localCts EXCEPT ![t] = IF @.exists THEN ScopeCallback(@) ELSE @]
    /\ UNCHANGED <<tracksVars, authVars, cts, pAuth, pcAtCancel, authUsedAfterReset, objectVars, uiVars>>
    /\ UNCHANGED <<pc, op, result, callVars, batchVars, cacheVars, permits, reqThisSecond>>

(***************************************************************************)
(* The preferences page (ui_preferences.cpp, lines 260-292): the button    *)
(* logs the user out when logged in, and starts a login otherwise.  Both   *)
(* go to the authorizer, which the backend built from the client           *)
(* configuration and the abort manager alone (webapi_backend.cpp:50);      *)
(* neither handler nor authorizer is handed userCache_.                    *)
(***************************************************************************)
\* line 287: auth.ClearAuth(), and nothing else: userCache_ as it was
LogoutUserCache(cached) == cached

\* lines 285-291
ClearAuth ==
    /\ refreshToken # 0
    /\ refreshToken' = 0
    /\ userCache' = LogoutUserCache(userCache)
    /\ UNCHANGED <<procVars, trackCache, artistCache, permits, histVars, tracksVars, bearer,
                   userCachedFor, userReturned, shutdownVars, objectVars, uiVars>>

\* lines 267-276, and the login it starts has succeeded, for some account
AuthenticateClean ==
    /\ refreshToken = 0
    /\ \E a \in Accounts : refreshToken' = a
    /\ UNCHANGED <<procVars, sharedVars, histVars, tracksVars, bearer, userCachedFor, userReturned,
                   shutdownVars, objectVars, uiVars>>

\* The operation has returned to the host: the thread is free for the next.
OperationEnds(t) ==
    /\ pc[t] = "done"
    /\ pc' = [pc EXCEPT ![t] = "idle"]
    /\ op' = [op EXCEPT ![t] = NoOp]
    /\ result' = [result EXCEPT ![t] = NoResult]
    /\ abort' = [abort EXCEPT ![t] = FALSE]
    /\ abortedAt' = [abortedAt EXCEPT ![t] = "none"]
    /\ writesAtAbort' = [writesAtAbort EXCEPT ![t] = {}]
    /\ cacheWrites' = [cacheWrites EXCEPT ![t] = {}]
    /\ userReturned' = [userReturned EXCEPT ![t] = NoUserReturned]
    /\ UNCHANGED <<callVars, batchVars, trackCache, artistCache, userCache, permits, reqThisSecond,
                   tracksVars, refreshToken, bearer, userCachedFor, shutdownVars, objectVars, uiVars>>

(***************************************************************************)
(* The preferences page (ui_preferences.cpp).  Its handlers run on the UI   *)
(* thread, one at a time; UpdateWebApiUi calls GetUser on that thread when  *)
(* the status is logged_in (lines 344-361, 394-402).  The status thread of  *)
(* OnInitDialog and the authorizer's login run beside it and post a        *)
(* message to the page when they are done.                                 *)
(***************************************************************************)
UiThread == 1

\* The UI thread is between two handlers and the window exists.
UiIdle == dialog = "open" /\ pc[UiThread] = "idle"

\* lines 366-393, 394-402: the button is disabled while the status is being
\* fetched and while a login is in progress
ButtonEnabled(status) == status \in {"logged_out", "logged_in"}

\* lines 344-361: UpdateWebApiUi under the new status
UpdateWebApiUi(status) ==
    IF status = "logged_in"
    THEN CallGetUser(UiThread)                                              \* line 352
    ELSE UNCHANGED <<procVars, sharedVars, histVars, tracksVars, authVars, shutdownVars, objectVars>>

\* (variant: a failed login leaves the status as it is)
StatusAfterLoginKept(authenticated) == IF authenticated THEN "logged_in" ELSE "login_in_progress"

\* line 304
StatusAfterLogin(authenticated) == IF authenticated THEN "logged_in" ELSE "logged_out"

\* lines 135-159: the status thread logs in again with the stored refresh
\* token, if there is one, and posts the outcome.
StatusThreadFinishes ==
    /\ statusThread = "running"
    /\ \/ /\ refreshToken # 0                                               \* line 151
          /\ statusThread' = "posted_true"
          /\ UNCHANGED refreshToken
       \/ /\ statusThread' = "posted_false"                                  \* lines 144, 155
          /\ refreshToken' \in {refreshToken, 0}
    /\ UNCHANGED <<procVars, sharedVars, histVars, tracksVars, bearer, userCachedFor, userReturned,
                   shutdownVars, objectVars, webApiStatus, dialog, login>>

\* lines 310-322
OnStatusUpdateFinish ==
    /\ UiIdle
    /\ statusThread \in {"posted_true", "posted_false"}
    /\ statusThread' = "handled"
    /\ webApiStatus' = IF statusThread = "posted_true" THEN "logged_in" ELSE "logged_out"   \* line 317
    /\ UpdateWebApiUi(webApiStatus')
    /\ UNCHANGED <<dialog, login>>

\* lines 260-292: a click on the enabled button
OnWebApiLoginClick ==
    /\ UiIdle
    /\ ButtonEnabled(webApiStatus)
    /\ IF webApiStatus = "logged_out"
       THEN /\ \/ /\ webApiStatus' = "login_in_progress"                    \* lines 270-275
                  /\ login' = "pending"
               \/ /\ webApiStatus' = "logged_out"                           \* lines 277-283
                  /\ login' = "threw"
            /\ UNCHANGED <<refreshToken, userCache>>
       ELSE /\ refreshToken' = 0                                             \* line 287
            /\ userCache' = LogoutUserCache(userCache)
            /\ webApiStatus' = "logged_out"                                  \* line 289
            /\ UNCHANGED login
    /\ UNCHANGED <<procVars, trackCache, artistCache, permits, histVars, tracksVars, bearer,
                   userCachedFor, userReturned, shutdownVars, objectVars, dialog, statusThread>>

\* The authorizer reaches a terminal state, logged in to some account or
\* not, and invokes on_done: line 275 posts kOnWebApiLoginResponse.
LoginEnds ==
    /\ login = "pending"
    /\ login' = "posted"
    /\ refreshToken' \in Accounts \cup {0}
    /\ UNCHANGED <<procVars, sharedVars, histVars, tracksVars, bearer, userCachedFor, userReturned,
                   shutdownVars, objectVars, webApiStatus, dialog, statusThread>>

\* lines 294-308
OnWebApiLoginResponse ==
    /\ UiIdle
    /\ login = "posted"
    /\ login' = "none"
    /\ webApiStatus' = StatusAfterLogin(refreshToken # 0)
    /\ UpdateWebApiUi(webApiStatus')
    /\ UNCHANGED <<dialog, statusThread>>

\* lines 167-187: a pending login is cancelled, the status thread is joined,
\* and the window is gone: what was posted to it is dropped.
OnDestroy ==
    /\ UiIdle
    /\ statusThread # "running"                                              \* line 183
    /\ dialog' = "destroyed"
    /\ login' = IF webApiStatus # "logged_in" THEN "none" ELSE login          \* lines 170-177
    /\ UNCHANGED <<procVars, sharedVars, histVars, tracksVars, authVars, shutdownVars, objectVars,
                   webApiStatus, statusThread>>

(***************************************************************************)
(* Finalize (lines 58-62), called once by the host at shutdown, on a       *)
(* thread of its own: two statements, with nothing between them that waits *)
(* for the other threads.                                                  *)
(***************************************************************************)
\* line 60: cts_.cancel()
FinalizeCancel ==
    /\ ~cts
    /\ cts' = TRUE
    /\ pcAtCancel' = pc
    /\ UNCHANGED <<procVars, sharedVars, histVars, tracksVars, authVars, pAuth, localCts,
                   authUsedAfterReset, objectVars, uiVars>>

\* line 61: pAuth_.reset()
FinalizeReset ==
    /\ cts
    /\ pAuth
    /\ pAuth' = FALSE
    /\ UNCHANGED <<procVars, sharedVars, histVars, tracksVars, authVars, cts, localCts, pcAtCancel,
                   authUsedAfterReset, objectVars, uiVars>>

\* A process that is computing, or whose sleep is over, runs before time passes.
MustRun(t) ==
    \/ pc[t] \in {"check", "request", "got", "ret", "lookup"}
    \/ pc[t] = "sleep" /\ (sleepLeft[t] = 0 \/ abort[t])

\* One second passes.
Tick ==
    /\ \A t \in Threads : ~MustRun(t)
    /\ permits' = 0
    /\ reqThisSecond' = 0
    /\ sleepLeft' = [t \in Threads |-> IF pc[t] = "sleep" THEN sleepLeft[t] - 1 ELSE sleepLeft[t]]
    /\ sleepLog' = [t \in Threads |->
                      IF pc[t] = "sleep"
                      THEN [sleepLog[t] EXCEPT ![Len(sleepLog[t])].sleptMs = @ + OneSecondMs]
                      ELSE sleepLog[t]]
    /\ UNCHANGED <<tracksVars, authVars, shutdownVars, objectVars, uiVars>>
    /\ UNCHANGED <<pc, op, abort, result, call, attempt, response, reqCount, respLog, abortAtAcquire,
                   abortedAt, writesAtAbort, batchVars, cacheVars>>

(***************************************************************************)
(* Specifications.                                                         *)
(*   Spec      one host thread runs one single-object operation; the       *)
(*             server answers anything and the host may abort at any time. *)
(*   SpecBatch one host thread runs one batch operation, likewise.         *)
(*   SpecLoad  all host threads run single-object operations at the same   *)
(*             time against a server under load; the host does not abort.  *)
(***************************************************************************)
OneCaller == {1}

Next ==
    \/ \E t \in OneCaller : GetUser(t)
    \/ \E t \in OneCaller : GetArtist(t)
    \/ \E t \in OneCaller : GetTrack(t)
    \/ \E t \in Threads : GetAccessToken(t)
    \/ \E t \in Threads : WaitForRequestAvailability(t)
    \/ \E t \in Threads : CheckAbort(t)
    \/ \E t \in Threads : SendRequest(t)
    \/ \E t \in Threads : ReceiveResponse(t)
    \/ \E t \in Threads : RequestCanceled(t)
    \/ \E t \in Threads : HandleResponse(t)
    \/ \E t \in Threads : SleepCompleted(t)
    \/ \E t \in Threads : SleepAborted(t)
    \/ \E t \in Threads : ResponseRejected(t)
    \/ \E t \in Threads : UserFetched(t)
    \/ \E t \in Threads : ArtistFetched(t)
    \/ \E t \in Threads : TrackFetched(t)
    \/ \E t \in Threads : Abort(t)
    \/ Tick

Spec == Init /\ [][Next]_vars

NextBatch ==
    \/ \E t \in OneCaller : RefreshCacheForTracks(t)
    \/ \E t \in OneCaller : RefreshCacheForArtists(t)
    \/ \E t \in Threads : GetAccessToken(t)
    \/ \E t \in Threads : WaitForRequestAvailability(t)
    \/ \E t \in Threads : CheckAbort(t)
    \/ \E t \in Threads : SendRequest(t)
    \/ \E t \in Threads : ReceiveResponse(t)
    \/ \E t \in Threads : RequestCanceled(t)
    \/ \E t \in Threads : HandleResponse(t)
    \/ \E t \in Threads : SleepCompleted(t)
    \/ \E t \in Threads : SleepAborted(t)
    \/ \E t \in Threads : ResponseRejected(t)
    \/ \E t \in Threads : ChunkFetched(t)
    \/ \E t \in Threads : Abort(t)
    \/ Tick

SpecBatch == Init /\ [][NextBatch]_vars

\* One host thread runs GetTracks.
NextTracks ==
    \/ \E t \in OneCaller : GetTracks(t)
    \/ \E t \in Threads : GetAccessToken(t)
    \/ \E t \in Threads : WaitForRequestAvailability(t)
    \/ \E t \in Threads : CheckAbort(t)
    \/ \E t \in Threads : SendRequest(t)
    \/ \E t \in Threads : ReceiveResponse(t)
    \/ \E t \in Threads : RequestCanceled(t)
    \/ \E t \in Threads : HandleResponse(t)
    \/ \E t \in Threads : SleepCompleted(t)
    \/ \E t \in Threads : SleepAborted(t)
    \/ \E t \in Threads : ResponseRejected(t)
    \/ \E t \in Threads : ChunkFetched(t)
    \/ \E t \in Threads : TracksLookedUp(t)
    \/ \E t \in Threads : Abort(t)
    \/ Tick

SpecTracks == Init /\ [][NextTracks]_vars

NextLoad ==
    \/ \E t \in Threads : GetUser(t)
    \/ \E t \in Threads : GetArtist(t)
    \/ \E t \in Threads : GetTrack(t)
    \/ \E t \in Threads : GetAccessToken(t)
    \/ \E t \in Threads : WaitForRequestAvailability(t)
    \/ \E t \in Threads : CheckAbort(t)
    \/ \E t \in Threads : SendRequest(t)
    \/ \E t \in Threads : ReceiveUnderLoad(t)
    \/ \E t \in Threads : HandleResponse(t)
    \/ \E t \in Threads : SleepCompleted(t)
    \/ \E t \in Threads : ResponseRejected(t)
    \/ \E t \in Threads : UserFetched(t)
    \/ \E t \in Threads : ArtistFetched(t)
    \/ \E t \in Threads : TrackFetched(t)
    \/ Tick

SpecLoad == Init /\ [][NextLoad]_vars

\* One host thread, logged in, runs GetTracksFromPlaylist; the host does not
\* abort.
InitPlaylist == Init /\ refreshToken # 0 /\ ~userCache

NextPlaylist ==
    \/ \E t \in OneCaller : GetTracksFromPlaylist(t)
    \/ \E t \in Threads : GetAccessToken(t)
    \/ \E t \in Threads : WaitForRequestAvailability(t)
    \/ \E t \in Threads : CheckAbort(t)
    \/ \E t \in Threads : SendRequest(t)
    \/ \E t \in Threads : ReceivePage(t)
    \/ \E t \in Threads : HandleResponse(t)
    \/ \E t \in Threads : SleepCompleted(t)
    \/ \E t \in Threads : ResponseRejected(t)
    \/ \E t \in Threads : PageFetched(t)
    \/ Tick

SpecPlaylist == InitPlaylist /\ [][NextPlaylist]_vars

\* One host thread calls GetUser again and again against a server under load,
\* while the user logs out and in on the preferences page.
InitAuth == Init /\ ~userCache /\ trackCache = {}

NextAuth ==
    \/ \E t \in OneCaller : GetUser(t)
    \/ \E t \in Threads : GetAccessToken(t)
    \/ \E t \in Threads : WaitForRequestAvailability(t)
    \/ \E t \in Threads : CheckAbort(t)
    \/ \E t \in Threads : SendRequest(t)
    \/ \E t \in Threads : ReceiveUnderLoad(t)
    \/ \E t \in Threads : HandleResponse(t)
    \/ \E t \in Threads : SleepCompleted(t)
    \/ \E t \in Threads : ResponseRejected(t)
    \/ \E t \in Threads : UserFetched(t)
    \/ \E t \in Threads : OperationEnds(t)
    \/ ClearAuth
    \/ AuthenticateClean
    \/ Tick

SpecAuth == InitAuth /\ [][NextAuth]_vars

\* One host thread, logged in, runs GetTracksFromPlaylist or
\* GetTracksFromAlbum against a server whose chain of pages ends; the host
\* does not abort.  Every thread that can take a step takes it, the server
\* answers every request, and time passes.
PagingResponses ==
    { [status |-> kOk, retryAfter |-> "absent", body |-> "object"],
      [status |-> kTooManyRequests, retryAfter |-> "0", body |-> "none"],
      [status |-> 404, retryAfter |-> "absent", body |-> "none"] }

ReceivePlaylistPage(t) == ReceivePageFrom(t, PagingResponses)
ReceiveAlbumPage(t) == ReceiveAlbumFrom(t, PagingResponses)

PagingStep(t) ==
    \/ GetAccessToken(t)
    \/ WaitForRequestAvailability(t)
    \/ CheckAbort(t)
    \/ SendRequest(t)
    \/ ReceivePlaylistPage(t)
    \/ ReceiveAlbumPage(t)
    \/ HandleResponse(t)
    \/ SleepCompleted(t)
    \/ ResponseRejected(t)
    \/ PageFetched(t)
    \/ AlbumPageFetched(t)

NextPaging ==
    \/ \E t \in OneCaller : GetTracksFromPlaylist(t)
    \/ \E t \in OneCaller : GetTracksFromAlbum(t)
    \/ \E t \in Threads : PagingStep(t)
    \/ Tick

SpecPaging ==
    /\ InitPlaylist
    /\ [][NextPaging]_vars
    /\ \A t \in Threads : WF_vars(PagingStep(t))
    /\ WF_vars(Tick)

\* One host thread calls the single-object operations one after the other,
\* starting with empty caches, while the user logs out and in.
InitRepeat == Init /\ ~userCache /\ trackCache = {} /\ refreshToken # 0

NextRepeat ==
    \/ \E t \in OneCaller : GetUser(t)
    \/ \E t \in OneCaller : GetArtist(t)
    \/ \E t \in OneCaller : GetTrack(t)
    \/ \E t \in Threads : GetAccessToken(t)
    \/ \E t \in Threads : WaitForRequestAvailability(t)
    \/ \E t \in Threads : CheckAbort(t)
    \/ \E t \in Threads : SendRequest(t)
    \/ \E t \in Threads : ReceiveUnderLoad(t)
    \/ \E t \in Threads : HandleResponse(t)
    \/ \E t \in Threads : SleepCompleted(t)
    \/ \E t \in Threads : ResponseRejected(t)
    \/ \E t \in Threads : UserFetched(t)
    \/ \E t \in Threads : ArtistFetched(t)
    \/ \E t \in Threads : TrackFetched(t)
    \/ \E t \in Threads : OperationEnds(t)
    \/ ClearAuth
    \/ AuthenticateClean
    \/ Tick

SpecRepeat == InitRepeat /\ [][NextRepeat]_vars

\* SpotifyObject: an object is built, formatted, and the string parsed back.
NextObject ==
    \/ ParseInput
    \/ IsValidCalled
    \/ BuildFromTypeAndId
    \/ Format
    \/ ParseFormatted

SpecObject == InitAuth /\ [][NextObject]_vars

\* The preferences page is open: its handlers and the GetUser calls they make.
InitLogin == Init /\ trackCache = {}

NextLogin ==
    \/ StatusThreadFinishes
    \/ OnStatusUpdateFinish
    \/ OnWebApiLoginClick
    \/ LoginEnds
    \/ OnWebApiLoginResponse
    \/ OnDestroy
    \/ \E t \in Threads : GetAccessToken(t)
    \/ \E t \in Threads : WaitForRequestAvailability(t)
    \/ \E t \in Threads : CheckAbort(t)
    \/ \E t \in Threads : SendRequest(t)
    \/ \E t \in Threads : ReceiveUnderLoad(t)
    \/ \E t \in Threads : HandleResponse(t)
    \/ \E t \in Threads : SleepCompleted(t)
    \/ \E t \in Threads : ResponseRejected(t)
    \/ \E t \in Threads : UserFetched(t)
    \/ \E t \in Threads : OperationEnds(t)
    \/ Tick

\* The authorizer ends every login it has started (by success, failure,
\* cancel or timeout) and the message loop delivers what was posted.
SpecLogin ==
    /\ InitLogin
    /\ [][NextLogin]_vars
    /\ WF_vars(LoginEnds)
    /\ WF_vars(OnWebApiLoginResponse)

\* All host threads run GetUser against a server under load; the host may
\* abort each of them, and shuts the backend down at any moment.
NextShutdown ==
    \/ \E t \in Threads : GetUser(t)
    \/ \E t \in Threads : GetAccessToken(t)
    \/ \E t \in Threads : WaitForRequestAvailability(t)
    \/ \E t \in Threads : CheckAbort(t)
    \/ \E t \in Threads : SendRequest(t)
    \/ \E t \in Threads : ReceiveUnderLoad(t)
    \/ \E t \in Threads : RequestCanceled(t)
    \/ \E t \in Threads : HandleResponse(t)
    \/ \E t \in Threads : SleepCompleted(t)
    \/ \E t \in Threads : SleepAborted(t)
    \/ \E t \in Threads : ResponseRejected(t)
    \/ \E t \in Threads : UserFetched(t)
    \/ \E t \in Threads : Abort(t)
    \/ FinalizeCancel
    \/ FinalizeReset
    \/ Tick

SpecShutdown == Init /\ [][NextShutdown]_vars


(***************************************************************************)
(* Properties.                                                             *)
(***************************************************************************)
Running(t) == pc[t] \notin {"idle", "done"}
Done(t) == pc[t] = "done"
StatusesOf(log) == [k \in 1..Len(log) |-> log[k].status]
IsBatchOp(t) == op[t].kind \in {"RefreshCacheForTracks", "RefreshCacheForArtists"}
\* The cache a batch operation populates.
OwnCache(t) == IF op[t].kind = "RefreshCacheForTracks" THEN trackCache ELSE artistCache
\* The cache the object fetched from a uri goes to.
CacheOf(uri) ==
    CASE uri = "me" -> "user"
      [] uri \in {"track", "tracks"} -> "track"
      [] OTHER -> "artist"
\* The Retry-After texts that denote an unsigned number, and their values.
ValidRetryAfter == {"0", "1000"}
MsOf(text) == IF text = "0" THEN 0 ELSE 1000

\* C1: with concurrent callers sharing the limiter, no more than kRpsLimit = 2
\* transport requests, retries included, are issued within one second.
C1_RequestsPerSecondWithinLimit == reqThisSecond <= 2

\* C2: if the host abort is signalled before the response of a call is decoded,
\* here after the transport has returned the response and before ParseResponse
\* runs, the operation does not return a value and inserts nothing into a cache
\* after the abort.
C2_AbortBeforeDecodeFails ==
    \A t \in Threads :
        abortedAt[t] \in {"got", "ret"} => /\ result[t].kind # "value"
                                          /\ cacheWrites[t] = writesAtAbort[t]

\* C3: a GetResponse call issues at most 3 transport requests; every request
\* after the first follows a 429 response of the same call; a request is issued
\* only after the response to the previous one was received and the retry sleep
\* that followed it has ended.
C3_AtMostThreeSequentialAttempts ==
    \A t \in Threads :
        /\ reqCount[t] <= 3
        /\ Len(respLog[t]) \in {reqCount[t] - 1, reqCount[t]}
        /\ pc[t] \in {"request", "inflight"} => Len(respLog[t]) = attempt[t]
        /\ \A k \in 1..(reqCount[t] - 1) :
              /\ respLog[t][k].status = 429
              /\ Len(sleepLog[t]) >= k
              /\ sleepLog[t][k].completed
              /\ sleepLog[t][k].sleptMs = sleepLog[t][k].ms

C3_Witness ==
    \E t \in Threads : Done(t) /\ result[t].kind = "value" /\ StatusesOf(respLog[t]) = <<429, 429, 200>>

\* C4: once a 429 response without a Retry-After header, or with one that is
\* no unsigned number, has been handled, the operation has failed: no sleep and
\* no transport request follow that response.
C4_BadRetryAfterFailsAtOnce ==
    \A t \in Threads :
        LET n == Len(respLog[t]) IN
        (/\ n > 0
         /\ respLog[t][n].status = 429
         /\ respLog[t][n].retryAfter \notin ValidRetryAfter
         /\ pc[t] # "got")
        => /\ Done(t)
           /\ result[t].kind = "error"
           /\ reqCount[t] = n
           /\ Len(sleepLog[t]) = n - 1

C4_Witness ==
    \E t \in Threads :
        /\ Done(t)
        /\ Len(respLog[t]) = 2
        /\ respLog[t][2].status = 429
        /\ respLog[t][2].retryAfter = "soon"

\* C5: when three attempts of one call were all answered 429 with a valid
\* Retry-After, no fourth request is issued, the operation ends in an error and
\* the call inserts nothing into the cache its object would go to.
C5_ThirdTooManyRequestsIsAnError ==
    \A t \in Threads :
        (/\ Len(respLog[t]) >= 3
         /\ \A k \in 1..3 : /\ respLog[t][k].status = 429
                            /\ respLog[t][k].retryAfter \in ValidRetryAfter)
        => /\ reqCount[t] = 3
           /\ Len(respLog[t]) = 3
           /\ pc[t] \in {"got", "sleep", "ret", "done"}
           /\ response[t] = respLog[t][3]
           /\ Done(t) => /\ result[t].kind = "error"
                         /\ \A w \in cacheWrites[t] : w[1] # CacheOf(call[t])

C5_Witness ==
    \E t \in Threads :
        /\ Done(t)
        /\ StatusesOf(respLog[t]) = <<429, 429, 429>>
        /\ respLog[t][3].retryAfter = "1000"
        /\ ~abort[t]

\* C6: when the first attempt is answered 429 with Retry-After r and the second
\* 200, the call has made exactly two transport requests with exactly one sleep
\* between them, of r ms + 1 s, and the operation returns the decoded object.
C6_RetryAfterSleepThenSuccess ==
    \A t \in Threads :
        StatusesOf(respLog[t]) = <<429, 200>>
        => /\ reqCount[t] = 2
           /\ Len(sleepLog[t]) = 1
           /\ sleepLog[t][1].ms = MsOf(respLog[t][1].retryAfter) + 1000
           /\ sleepLog[t][1].sleptMs = sleepLog[t][1].ms
           /\ sleepLog[t][1].completed
           /\ (Done(t) /\ respLog[t][2].body = "object")
                 => result[t] = [kind |-> "value", from |-> "network"]

C6_Witness ==
    \E t \in Threads :
        /\ Done(t)
        /\ StatusesOf(respLog[t]) = <<429, 200>>
        /\ respLog[t][1].retryAfter = "1000"
        /\ respLog[t][2].body = "object"
        /\ result[t].kind = "value"

\* C7: if the abort is signalled when the limiter wait of a call returns, the
\* call issues no transport request and the operation fails.
C7_AbortAtAcquireMeansNoRequest ==
    \A t \in Threads :
        abortAtAcquire[t] => /\ reqCount[t] = 0
                             /\ pc[t] \in {"check", "done"}
                             /\ Done(t) => result[t].kind = "error"

C7_Witness ==
    \E t \in Threads : abortAtAcquire[t] /\ Done(t) /\ permits > 0

\* C8: when a batch operation fails, the cache it populates holds what it held
\* when the operation began.
C8_FailedBatchCachesNothing ==
    \A t \in Threads :
        (IsBatchOp(t) /\ Done(t) /\ result[t].kind = "error") => OwnCache(t) = cache0[t]

\* C9: GetTrack with useRelink = true leaves the track cache as it was, and
\* the track it returns comes from the response to a `tracks/{id}` request,
\* also when the id is cached.
C9_RelinkBypassesTrackCache ==
    \A t \in Threads :
        (op[t].kind = "GetTrack" /\ op[t].relink)
        => /\ trackCache = cache0[t]
           /\ \A w \in cacheWrites[t] : w[1] # "track"
           /\ result[t].kind = "value"
                 => /\ result[t].from = "network"
                    /\ call[t] = "track"
                    /\ reqCount[t] >= 1
                    /\ response[t].status = 200

C9_Witness ==
    \E t \in Threads :
        /\ op[t].kind = "GetTrack" /\ op[t].relink
        /\ IsCached(cache0[t], op[t].id)
        /\ result[t].kind = "value"

\* C10: a batch operation that returns, every object it asked for having been
\* returned and cached, has issued ceil(u/50) requests, u the number of
\* distinct input ids not cached when it began; each request carries at most
\* 50 ids, no id is in two requests, and no id cached at the start is requested.
C10_ChunkedRequests ==
    \A t \in Threads :
        (/\ IsBatchOp(t) /\ Done(t) /\ result[t].kind = "value"
         /\ \A k \in 1..Len(chunkLog[t]) : chunkLog[t][k] \subseteq OwnCache(t))
        => LET u == Cardinality(ToSet(op[t].ids) \ cache0[t])
           IN  /\ Len(chunkLog[t]) = (u + 49) \div 50
               /\ \A k \in 1..Len(chunkLog[t]) :
                     /\ Cardinality(chunkLog[t][k]) <= 50
                     /\ chunkLog[t][k] \cap cache0[t] = {}
                     /\ \A j \in 1..(k - 1) : chunkLog[t][j] \cap chunkLog[t][k] = {}

\* Every request of the batch was answered with every track it asked for.
AllRequestedCached(t) == \A k \in 1..Len(chunkLog[t]) : chunkLog[t][k] \subseteq trackCache

\* C11: when GetTracks returns, every batch request having been answered
\* with every track it asked for, the result is the input list itself:
\* the same length, position i the track of the i-th input id, duplicates
\* included, each taken from the track cache.
C11_GetTracksServesInputFromCache ==
    \A t \in Threads :
        (/\ op[t].kind = "GetTracks" /\ Done(t) /\ result[t].kind = "value"
         /\ AllRequestedCached(t))
        => /\ Len(tracks[t]) = Len(op[t].ids)
           /\ \A i \in 1..Len(op[t].ids) : tracks[t][i] = op[t].ids[i]
           /\ result[t].from = "cache"

\* C12: after RefreshCacheForTracks has returned inside GetTracks, every
\* batch request having been answered with every track it asked for, each
\* id of the input list is cached when it is looked up (the assertion of
\* line 160 holds).
C12_LookedUpIdsAreCached ==
    \A t \in Threads :
        (op[t].kind = "GetTracks" /\ pc[t] \in {"done", "crashed"} /\ AllRequestedCached(t))
        => ~lookupMissed[t]

\* The items of the pages of a log, in the order the server sent them.
RECURSIVE AllItems(_)
AllItems(log) == IF log = <<>> THEN <<>> ELSE Head(log).items \o AllItems(Tail(log))
IsLocalItem(i) == i.is_local
IsTrackItem(i) == ~i.is_local
IsPlaylistOp(t) == op[t].kind = "GetTracksFromPlaylist"

\* C13: GetTracksFromPlaylist makes one GetJsonResponse call per page, with
\* one transport request unless a 429 is retried; the first goes to
\* playlists/{id}/tracks with limit=100 and each later one to the `next` of
\* the page before it; no page is requested after a page whose `next` is null;
\* on return the last page's `next` is null and the two vectors hold the items
\* of all pages in the order the server sent them.
C13_OneRequestPerPage ==
    \A t \in Threads :
        IsPlaylistOp(t)
        => LET n == Len(pageLog[t]) IN
           /\ Len(uriLog[t]) \in {n, n + 1}
           /\ uriLog[t][1] = [path |-> "playlists/{id}/tracks", limit |-> 100, offset |-> 0]
           /\ \A k \in 2..Len(uriLog[t]) : uriLog[t][k] = pageLog[t][k - 1].next
           /\ \A k \in 1..n : /\ pageLog[t][k].requests = pageLog[t][k].retried + 1
                               /\ pageLog[t][k].next = NoUri => (k = n /\ Len(uriLog[t]) = n)
           /\ (Done(t) /\ result[t].kind = "value")
                 => /\ n >= 1
                    /\ Len(uriLog[t]) = n
                    /\ pageLog[t][n].next = NoUri
                    /\ tracks[t] = IdsOf(SelectSeq(AllItems(pageLog[t]), IsTrackItem))
                    /\ localTracks[t] = IdsOf(SelectSeq(AllItems(pageLog[t]), IsLocalItem))

C13_Witness ==
    \E t \in Threads :
        /\ IsPlaylistOp(t) /\ Done(t) /\ result[t].kind = "value"
        /\ Len(pageLog[t]) = 2
        /\ Len(tracks[t]) = 3
        /\ Len(localTracks[t]) = 1
        /\ pageLog[t][2].retried = 1

\* C14: after GetTracksFromPlaylist has returned, every non-local track of
\* every page is in the track cache, no local track is in it or was inserted,
\* and every playlist item is in exactly one of the two vectors: the tracks
\* in `tracks`, the local tracks in `localTracks`.
C14_PlaylistTracksCachedLocalsNot ==
    \A t \in Threads :
        (IsPlaylistOp(t) /\ Done(t) /\ result[t].kind = "value")
        => LET all == AllItems(pageLog[t]) IN
           /\ \A i \in 1..Len(all) : all[i].is_local \/ all[i].id \in trackCache
           /\ trackCache \cap LocalIds = {}
           /\ \A w \in cacheWrites[t] : w[2] \notin LocalIds
           /\ Len(tracks[t]) + Len(localTracks[t]) = Len(all)
           /\ \A i \in 1..Len(tracks[t]) : tracks[t][i] \notin LocalIds
           /\ \A i \in 1..Len(localTracks[t]) : localTracks[t][i] \in LocalIds

C14_Witness ==
    \E t \in Threads :
        /\ IsPlaylistOp(t) /\ Done(t) /\ result[t].kind = "value"
        /\ Len(pageLog[t]) = 2
        /\ localTracks[t] # <<>>
        /\ \E i \in 1..Len(tracks[t]) : tracks[t][i] \notin cache0[t]

\* C15: the user GetUser returns from the current-user cache is the user of
\* the refresh token the authorizer holds at that moment: never a user cached
\* under a refresh token that was since cleared or replaced.
C15_CachedUserIsOfCurrentToken ==
    \A t \in Threads :
        (op[t].kind = "GetUser" /\ Done(t) /\ result[t] = [kind |-> "value", from |-> "cache"])
        => userReturned[t].user = userReturned[t].token

\* C19: parsing ToUri, ToUrl or ToSchema of a SpotifyObject, here one that
\* was itself built by parsing, gives an object of the same type and id.
C19_FormatThenParseIsIdentity ==
    (obj.by = "parse" /\ parsed # NoObject)
    => /\ parsed.valid
       /\ parsed.type = obj.type
       /\ parsed.id = obj.id

\* C20: IsValid is true of ToUri, ToUrl and ToSchema of every SpotifyObject,
\* built by parsing or from a type and an id.
C20_FormattedIsValid ==
    (obj # NoObject /\ formatted # <<>>) => IsValid(formatted)

\* The number of times ch occurs in str.
Count(str, ch) == Cardinality({i \in 1..Len(str) : str[i] = ch})

\* The input once the optional scheme prefix is stripped.
Stripped(str) == IF StartsWith(str, schemaPrefix) THEN RemovePrefix(str, Len(schemaPrefix)) ELSE str

\* spotify:<type>:<id>, exactly three colon-separated parts
IsUriShape(str) == StartsWith(str, uriPrefix \o <<":">>) /\ Count(str, ":") = 2

\* https://open.spotify.com/<type>/<id>, exactly two slash-separated parts
IsUrlShape(str) ==
    /\ StartsWith(str, urlPrefix)
    /\ Count(RemovePrefix(str, Len(urlPrefix)), "/") = 1

\* The <type> of a string of one of the two shapes.
TypeIn(str) ==
    IF IsUrlShape(str)
    THEN LET rest == RemovePrefix(str, Len(urlPrefix))
         IN  SubSeq(rest, 1, Find(rest, "/") - 1)
    ELSE LET rest == RemovePrefix(str, Len(uriPrefix) + 1)
         IN  SubSeq(rest, 1, Find(rest, ":") - 1)

HasShape(str) == IsUriShape(str) \/ IsUrlShape(str)

\* C21: an object produced by parsing has an allow-listed type and a non-empty
\* id without `?` and without `/`.
C21_ParsedObjectIsWellFormed ==
    (obj.by = "parse" /\ obj.valid)
    => /\ obj.type \in {TrackType, AlbumType, PlaylistType}
       /\ obj.id # <<>>
       /\ \A i \in 1..Len(obj.id) : obj.id[i] \notin {"?", "/"}

\* C22: parsing fails for an input of neither shape and for an input whose
\* type is not track, album or playlist; IsValid is false exactly when
\* parsing fails.
C22_ParseFailsOnBadInput ==
    inputStr.given
    => LET str == Stripped(inputStr.text)
       IN  /\ ~HasShape(str) => ~obj.valid
           /\ (HasShape(str) /\ TypeIn(str) \notin {TrackType, AlbumType, PlaylistType}) => ~obj.valid
           /\ isValid # "none" => (isValid = "true" <=> obj.valid)

\* An `episode` uri was parsed and asked about: both refuse it.
C22_Witness ==
    /\ inputStr = [given |-> TRUE, text |-> uriPrefix \o <<":">> \o EpisodeType \o <<":", "a">>]
    /\ obj = Invalid
    /\ isValid = "false"

\* The body is JSON text whose top-level value is an object.
IsJsonObject(body) == body \in {"object", "partial", "nokey"}

\* C23: GetJsonResponse hands a JSON value to the operation only when the
\* final response has status 200 and a JSON object as its body; otherwise the
\* operation ends with an error there and writes to no cache.
C23_JsonValueOnlyFromOkObject ==
    [][\A t \in Threads :
         (pc[t] = "ret" /\ pc'[t] # "ret")
         => \/ response[t].status = kOk /\ IsJsonObject(response[t].body)
            \/ /\ pc'[t] = "done"
               /\ result'[t].kind = "error"
               /\ cacheWrites'[t] = cacheWrites[t]
               /\ <<trackCache, artistCache, userCache>>' = <<trackCache, artistCache, userCache>>]_vars

\* A call received a 200 whose body is a JSON array and ended with an error;
\* another time a 404 did the same.
C23_Witness ==
    \E t \in Threads :
        /\ pc[t] = "done"
        /\ result[t].kind = "error"
        /\ respLog[t] # <<>>
        /\ respLog[t][Len(respLog[t])] = [status |-> kOk, retryAfter |-> "absent", body |-> "array"]
        /\ cacheWrites[t] = {}

\* C24: a login started by a click in logged_out ends.  While it is pending
\* the status is login_in_progress; the response handler sets logged_in or
\* logged_out after IsAuthenticated(); a throwing AuthenticateClean leaves
\* logged_out; and the status of an open page leaves login_in_progress.
C24_LoginEnds ==
    /\ [](dialog = "open" => (login \in {"pending", "posted"} <=> webApiStatus = "login_in_progress"))
    /\ [][(login = "posted" /\ login' = "none" /\ dialog' = "open")
           => webApiStatus' = (IF refreshToken # 0 THEN "logged_in" ELSE "logged_out")]_vars
    /\ [][(login # "threw" /\ login' = "threw")
           => (webApiStatus = "logged_out" /\ webApiStatus' = "logged_out")]_vars
    /\ ((dialog = "open" /\ webApiStatus = "login_in_progress")
           ~> (dialog = "destroyed" \/ webApiStatus # "login_in_progress"))

\* A login to the second account was started by a click, has ended, and the
\* page shows logged_in.
C24_Witness ==
    /\ dialog = "open"
    /\ webApiStatus = "logged_in"
    /\ login = "none"
    /\ refreshToken = MaxAccounts

\* The operation that starts in this step looks its object up and misses, or
\* is told not to use what it finds.
LookupMisses(t) ==
    \/ op'[t].kind = "GetUser" /\ ~userCache
    \/ op'[t].kind = "GetArtist" /\ ~IsCached(artistCache, op'[t].id)
    \/ op'[t].kind = "GetTrack" /\ (op'[t].relink \/ ~IsCached(trackCache, op'[t].id))

\* C25: in a read that misses the cache the steps come in this order: cache
\* lookup, access-token fetch, limiter wait, transport request, response
\* parse, cache insert; the insert follows a successful parse of the response
\* it stores.
C25_StepsOfAReadInOrder ==
    [][\A t \in Threads :
         /\ (pc[t] = "idle" /\ pc'[t] # "idle")
            => IF LookupMisses(t) THEN pc'[t] = "token" ELSE pc'[t] = "done"
         /\ (pc[t] # "token" /\ pc'[t] = "token") => pc[t] \in {"idle", "ret"}
         /\ (pc[t] # "wait" /\ pc'[t] = "wait") => pc[t] = "token"
         /\ (pc[t] # "check" /\ pc'[t] = "check") => pc[t] = "wait"
         /\ (pc[t] # "request" /\ pc'[t] = "request") => pc[t] \in {"check", "sleep"}
         /\ (pc[t] # "inflight" /\ pc'[t] = "inflight") => (pc[t] = "request" /\ reqCount'[t] = reqCount[t] + 1)
         /\ reqCount'[t] > reqCount[t] => pc'[t] = "inflight"
         /\ (pc[t] # "got" /\ pc'[t] = "got") => pc[t] = "inflight"
         /\ (pc[t] # "ret" /\ pc'[t] = "ret") => pc[t] \in {"got", "sleep"}
         /\ cacheWrites'[t] # cacheWrites[t]
            => /\ pc[t] = "ret"
               /\ reqCount[t] >= 1
               /\ response[t] = respLog[t][Len(respLog[t])]
               /\ response[t].status = kOk
               /\ IsJsonObject(response[t].body)]_vars

\* GetArtist missed the cache, made one request and cached what it got.
C25_Witness ==
    \E t \in Threads :
        /\ pc[t] = "done"
        /\ op[t].kind = "GetArtist"
        /\ result[t] = [kind |-> "value", from |-> "network"]
        /\ reqCount[t] = 1
        /\ cacheWrites[t] = {<<"artist", op[t].id>>}

\* The operation o reads and fills a cache, and that cache holds its object.
ServedFromCache(o) == o.kind \in {"GetUser", "GetArtist"} \/ (o.kind = "GetTrack" /\ ~o.relink)
HoldsObjectOf(o) ==
    \/ o.kind = "GetUser" /\ userCache
    \/ o.kind = "GetArtist" /\ o.id \in artistCache
    \/ o.kind = "GetTrack" /\ o.id \in trackCache

\* C26: once GetTrack( id, useRelink = false ), GetArtist( id ) or GetUser has
\* succeeded its object is cached; nothing leaves a cache; and a later call
\* of the same operation for the same id sends no request, changes no cache
\* and returns the cached value, which for GetUser is the user of the first
\* call.
C26_SecondCallServedFromCache ==
    /\ [](\A t \in Threads :
            (pc[t] = "done" /\ result[t].kind = "value" /\ ServedFromCache(op[t]))
            => /\ HoldsObjectOf(op[t])
               /\ op[t].kind = "GetUser" => userReturned[t].user = userCachedFor)
    /\ [][/\ trackCache \subseteq trackCache'
          /\ artistCache \subseteq artistCache'
          /\ userCache => (userCache' /\ userCachedFor' = userCachedFor)]_vars
    /\ [][\A t \in Threads :
            (pc[t] = "idle" /\ pc'[t] # "idle" /\ ServedFromCache(op'[t]) /\ HoldsObjectOf(op'[t]))
            => /\ pc'[t] = "done"
               /\ result'[t] = [kind |-> "value", from |-> "cache"]
               /\ reqThisSecond' = reqThisSecond
               /\ reqCount' = reqCount
               /\ <<trackCache, artistCache, userCache, userCachedFor>>'
                    = <<trackCache, artistCache, userCache, userCachedFor>>
               /\ cacheWrites' = cacheWrites]_vars

\* The caches were empty; a first GetTrack fetched and cached track 1, and a
\* second GetTrack of the same id has now returned it from the cache.
C26_Witness ==
    \E t \in Threads :
        /\ pc[t] = "done"
        /\ op[t] = [NoOp EXCEPT !.kind = "GetTrack", !.id = 1]
        /\ result[t] = [kind |-> "value", from |-> "cache"]
        /\ trackCache = {1}
        /\ cacheWrites[t] = {}

\* C27: when the abort is signalled during a retry sleep the call sends no
\* further request and the operation ends with an error, never with a value.
C27_AbortDuringSleepFails ==
    /\ [](\A t \in Threads :
            abortedAt[t] = "sleep"
            => /\ pc[t] \in {"sleep", "ret", "done"}
               /\ result[t].kind # "value"
               /\ pc[t] = "done" => result[t].kind = "error"
               /\ cacheWrites[t] = writesAtAbort[t])
    /\ [][\A t \in Threads :
            abortedAt[t] = "sleep" => (reqCount'[t] = reqCount[t] /\ pc'[t] # "request")]_vars

\* The first request was answered 429 with a valid Retry-After, the abort
\* came during the sleep, and the operation has ended with an error after that
\* one request.
C27_Witness ==
    \E t \in Threads :
        /\ abortedAt[t] = "sleep"
        /\ pc[t] = "done"
        /\ result[t].kind = "error"
        /\ reqCount[t] = 1
        /\ StatusesOf(respLog[t]) = <<kTooManyRequests>>
        /\ Len(sleepLog[t]) = 1
        /\ ~sleepLog[t][1].completed

IsPagingOp(t) == op[t].kind \in {"GetTracksFromPlaylist", "GetTracksFromAlbum"}

\* C28: GetTracksFromPlaylist and GetTracksFromAlbum end when the server's
\* chain of pages ends; they make one GetJsonResponse call per page, of one
\* request unless a 429 is retried, and none after the page without `next`;
\* the first page of an album comes with the answer to albums/{id}.
C28_PagingTerminates ==
    /\ \A t \in Threads : (pc[t] # "idle") ~> (pc[t] = "done")
    /\ [](\A t \in Threads :
            IsPagingOp(t)
            => LET n == Len(pageLog[t]) IN
               /\ Len(uriLog[t]) \in {n, n + 1}
               /\ uriLog[t][1] = IF op[t].kind = "GetTracksFromAlbum" THEN AlbumUri ELSE PlaylistUri
               /\ \A k \in 2..Len(uriLog[t]) : uriLog[t][k] = pageLog[t][k - 1].next
               /\ \A k \in 1..n : /\ pageLog[t][k].requests = pageLog[t][k].retried + 1
                                   /\ pageLog[t][k].next = NoUri => (k = n /\ Len(uriLog[t]) = n)
               /\ (pc[t] = "done" /\ result[t].kind = "value")
                     => (n >= 1 /\ Len(uriLog[t]) = n /\ pageLog[t][n].next = NoUri))

\* GetTracksFromAlbum has returned the tracks of an album of two pages after
\* two calls: albums/{id}, and the `next` of the first page.
C28_Witness ==
    \E t \in Threads :
        /\ op[t].kind = "GetTracksFromAlbum"
        /\ pc[t] = "done"
        /\ result[t].kind = "value"
        /\ Len(pageLog[t]) = 2
        /\ Len(uriLog[t]) = 2
        /\ uriLog[t][1] = AlbumUri
        /\ Len(tracks[t]) = 2 * MaxPageItems

\* The positions of a GetResponse call after its limiter wait.
PastLimiter(t) == pc[t] \in {"check", "request", "inflight", "got", "sleep"}

\* C29: a GetResponse call waits on the limiter once, after it has fetched the
\* access token and before its first request; the attempts after a 429 take
\* no permit and carry the bearer of the first attempt, whatever the
\* authorizer holds by then.
C29_OneLimiterWaitPerCall ==
    [][\A t \in Threads :
         /\ (pc[t] # "wait" /\ pc'[t] = "wait")
            => (pc[t] = "token" /\ bearer'[t] = refreshToken /\ bearer'[t] # 0 /\ reqCount[t] = 0)
         /\ (pc[t] = "wait" /\ pc'[t] # "wait")
            => (pc'[t] = "check" /\ permits' = permits + 1 /\ reqCount[t] = 0 /\ attempt[t] = 0)
         /\ (pc[t] # "request" /\ pc'[t] = "request" /\ attempt'[t] = 0) => pc[t] = "check"
         /\ PastLimiter(t)
            => /\ pc'[t] \notin {"token", "wait"}
               /\ bearer'[t] = bearer[t]
               /\ permits' \in {permits, 0}
         /\ (pc[t] = "request" /\ pc'[t] = "inflight")
            => (reqCount'[t] = attempt[t] + 1 /\ permits' = permits /\ bearer'[t] = bearer[t])]_vars

\* The second attempt of a call is in flight in a second in which the limiter
\* has granted nothing, and carries the bearer of an account the user has
\* logged out of since.
C29_Witness ==
    \E t \in Threads :
        /\ pc[t] = "inflight"
        /\ reqCount[t] = 2
        /\ reqThisSecond = 1
        /\ permits = 0
        /\ bearer[t] = 1
        /\ refreshToken = MaxAccounts

\* The response is a 429 that carries a valid Retry-After.
IsSleptOn(r) == r.status = kTooManyRequests /\ r.retryAfter \in ValidRetryAfter

\* C30: a call sleeps once after every 429 with a valid Retry-After, for
\* Retry-After ms + 1 s, the third included: with no abort, a call that has
\* returned after three such responses has slept three times in full and
\* returns the last of them.
C30_SleepAfterEvery429 ==
    \A t \in Threads :
        LET slept == SelectSeq(respLog[t], IsSleptOn)
        IN  /\ Len(sleepLog[t]) =
                 IF pc[t] = "got" /\ IsSleptOn(response[t]) THEN Len(slept) - 1 ELSE Len(slept)
            /\ \A k \in 1..Len(sleepLog[t]) : sleepLog[t][k].ms = MsOf(slept[k].retryAfter) + OneSecondMs
            /\ (Len(slept) = kMaxAttempts /\ ~abort[t] /\ pc[t] \in {"ret", "done"})
                  => /\ Len(sleepLog[t]) = kMaxAttempts
                     /\ \A k \in 1..kMaxAttempts : /\ sleepLog[t][k].completed
                                                    /\ sleepLog[t][k].sleptMs = sleepLog[t][k].ms
                     /\ reqCount[t] = kMaxAttempts
                     /\ response[t] = respLog[t][kMaxAttempts]

\* GetResponse has returned the third 429 after its third sleep, of 2 s.
C30_Witness ==
    \E t \in Threads :
        /\ pc[t] = "ret"
        /\ ~abort[t]
        /\ StatusesOf(respLog[t]) = <<kTooManyRequests, kTooManyRequests, kTooManyRequests>>
        /\ Len(sleepLog[t]) = 3
        /\ sleepLog[t][3] = [ms |-> 2000, sleptMs |-> 2000, completed |-> TRUE]

\* The positions of GetResponse inside the abortable scope of line 452.
InScope(t) == pc[t] \in {"request", "inflight", "got", "sleep"}

\* C16: a call that was in flight when Finalize began never dereferences
\* pAuth_ after Finalize has reset it.
C16_NoAuthorizerUseAfterReset ==
    \A t \in Threads :
        pcAtCancel[t] \notin {"none", "idle", "done"} => ~authUsedAfterReset[t]

\* C17: a GetResponse call that was waiting for the limiter, in a transport
\* request or in a retry sleep when cts_ was cancelled, and whose host abort is
\* not signalled, does not return a response to its caller, and its operation
\* returns no value.
C17_GlobalCancelFailsInFlightCalls ==
    \A t \in Threads :
        (pcAtCancel[t] \in {"wait", "inflight", "sleep"} /\ ~abort[t])
        => /\ pc[t] # "ret"
           /\ result[t].kind # "value"

\* C18: the linked source of a call exists exactly while the call is inside
\* its abortable scope; there its token is cancelled exactly when cts_ is
\* cancelled or the call's own host abort is signalled, whatever the aborts of
\* the other calls; cts_ is cancelled by Finalize only; and what a completed
\* operation returned never changes afterwards.
C18_LinkedTokenFollowsBothSources ==
    /\ [](\A t \in Threads :
            /\ localCts[t].exists <=> InScope(t)
            /\ InScope(t) => (TokenCancelled(t) <=> (cts \/ abort[t]))
            /\ ~InScope(t) => ~TokenCancelled(t)
            /\ cts <=> pcAtCancel[t] # "none")
    /\ [][\A t \in Threads : Done(t) => (Done(t)' /\ result'[t] = result[t])]_vars

C18_Witness ==
    \E t, u \in Threads :
        /\ pc[t] = "inflight" /\ pc[u] = "inflight"
        /\ abort[t] /\ TokenCancelled(t)
        /\ ~abort[u] /\ ~TokenCancelled(u)

=============================================================================
